---- MODULE Spec2Model ----
(***************************************************************************)
(* gridifier: cut one cell out of an N x M container, slice the cell into  *)
(* 12 sub-parts, re-tile the sub-parts into a rows x cols container and    *)
(* repair the merged triangle mesh.                                        *)
(*                                                                         *)
(* Lengths are integers in units of 0.001 mm, so that the three numeric    *)
(* constants of src/src/gridifier.ts are integers.  A solid is modelled by *)
(* its axis-aligned bounding box (the nominal cut planes: the geometry     *)
(* inside the OVERLAP_THICKNESS pad of a cutter box is not modelled); a    *)
(* triangle mesh is modelled by its position buffer and its index buffer.  *)
(***************************************************************************)
EXTENDS Integers, Sequences, FiniteSets, TLC

VARIABLES
    pc,                  \* position of the run inside Gridifier
    options,             \* GridifierOptions given by the caller
    debugDir,            \* isDebug(): the ./debug directory exists
    baseGeom,            \* the loaded solid
    originalGridResult,  \* GridResult returned by cutToGrid
    gridResult,          \* GridResult after the optional rescaling
    cornerCuttingRadius, \* corner radius after the optional rescaling
    subparts,            \* Subparts returned by cutToParts
    geometries,          \* list of placed pieces built by reassemble
    merged,              \* mesh handed to fixNonManifoldGeometry
    fixed,               \* mesh returned by fixNonManifoldGeometry
    refixed,             \* mesh returned by a second repair of `fixed`
    err,                 \* message of the Error thrown, "" if none
    artifacts,           \* debug files written so far
    output,              \* `output` of the loop of fixNonManifoldGeometry
    stepInput,           \* the mesh the last repair step was applied to
    verticesLengthBegin, \* verticesLengthBegin of the current loop pass
    argv,                \* the -g and -o arguments of the command line, as typed
    cli,                 \* what main has done: file written, directory made, exit
    context,             \* `context` of the validateGeometry call under way
    diagnostic,          \* what hasNonManifoldEdges returned, if it was called
    reassembly,          \* reassemble statement by statement: objects, local names, list
    page,                \* React state of the web page Home and its generate call under way
    route                \* requests to the model download route and the file it serves

vars == <<pc, options, debugDir, baseGeom, originalGridResult, gridResult,
          cornerCuttingRadius, subparts, geometries, merged, fixed, refixed,
          err, artifacts, output, stepInput, verticesLengthBegin, argv, cli,
          context, diagnostic, reassembly, page, route>>

(***************************************************************************)
(* Program constants (src/src/gridifier.ts:70-72), in units of 0.001 mm    *)
(* and 0.001 mm * 0.001 mm.                                                *)
(***************************************************************************)
OVERLAP_THICKNESS == 10
MERGE_VERTICES_TOLERANCE == 1
MIN_TRIANGLE_AREA == 1000

(***************************************************************************)
(* Bounds of the model.                                                    *)
(***************************************************************************)
MaxInputGrid == 3
MaxOutputGrid == 2
MaxTris == 2

(***************************************************************************)
(* Arithmetic helpers.                                                     *)
(***************************************************************************)
Min2(a, b) == IF a <= b THEN a ELSE b
Max2(a, b) == IF a >= b THEN a ELSE b

\* a / b for the inputs of the model, on which the quotient is an integer
\* (TLC stops with an error if it is not).
ExactDiv(a, b) == CHOOSE q \in {a \div b} : q * b = a

\* Math.round(a / b) for a >= 0, b > 0
Round(a, b) == (2 * a + b) \div (2 * b)

\* An optional value: <<>> is undefined, <<v>> is v.
None == <<>>
Some(v) == <<v>>
IsDefined(o) == Len(o) > 0
Value(o) == o[1]

RECURSIVE Flatten(_)
Flatten(ss) == IF Len(ss) = 0 THEN <<>> ELSE Head(ss) \o Flatten(Tail(ss))

(***************************************************************************)
(* Geometry primitives on bounding boxes.                                  *)
(***************************************************************************)
Geom(part, x0, x1, y0, y1, z0, z1) ==
    [part |-> part, x0 |-> x0, x1 |-> x1, y0 |-> y0, y1 |-> y1,
     z0 |-> z0, z1 |-> z1, rot |-> 0, mirrored |-> FALSE]

NoGeom == Geom("none", 0, 0, 0, 0, 0, 0)

translate(g, tx, ty, tz) ==
    [g EXCEPT !.x0 = @ + tx, !.x1 = @ + tx,
              !.y0 = @ + ty, !.y1 = @ + ty,
              !.z0 = @ + tz, !.z1 = @ + tz]

\* geometry.scale(nx/dx, ny/dy, nz/dz) about the origin
scale(g, nx, dx, ny, dy, nz, dz) ==
    LET a0 == ExactDiv(g.x0 * nx, dx)  a1 == ExactDiv(g.x1 * nx, dx)
        b0 == ExactDiv(g.y0 * ny, dy)  b1 == ExactDiv(g.y1 * ny, dy)
        c0 == ExactDiv(g.z0 * nz, dz)  c1 == ExactDiv(g.z1 * nz, dz)
    IN [g EXCEPT !.x0 = Min2(a0, a1), !.x1 = Max2(a0, a1),
                 !.y0 = Min2(b0, b1), !.y1 = Max2(b0, b1),
                 !.z0 = Min2(c0, c1), !.z1 = Max2(c0, c1)]

\* geometry.rotateZ(q * Math.PI / 2): (x, y) -> (-y, x) once per quarter turn
rotateZ(g, q) ==
    LET k == q % 4 IN
    CASE k = 0 -> g
      [] k = 1 -> [g EXCEPT !.x0 = -g.y1, !.x1 = -g.y0, !.y0 = g.x0, !.y1 = g.x1,
                            !.rot = (@ + 1) % 4]
      [] k = 2 -> [g EXCEPT !.x0 = -g.x1, !.x1 = -g.x0, !.y0 = -g.y1, !.y1 = -g.y0,
                            !.rot = (@ + 2) % 4]
      [] k = 3 -> [g EXCEPT !.x0 = g.y0, !.x1 = g.y1, !.y0 = -g.x1, !.y1 = -g.x0,
                            !.rot = (@ + 3) % 4]

trimBufferGeometryToOrigin(g) == translate(g, -g.x0, -g.y0, -g.z0)

rotateZWithTrim(g, q) == trimBufferGeometryToOrigin(rotateZ(g, q))

flipGeometryWithTrim(g, axis) ==
    LET f == CASE axis = "x" -> [g EXCEPT !.x0 = -g.x1, !.x1 = -g.x0]
               [] axis = "y" -> [g EXCEPT !.y0 = -g.y1, !.y1 = -g.y0]
               [] axis = "z" -> [g EXCEPT !.z0 = -g.z1, !.z1 = -g.z0]
    IN trimBufferGeometryToOrigin([f EXCEPT !.mirrored = ~@])

\* The cutter box covering [xMin..xMax, yMin..yMax, zMin..zMax]; the mesh
\* is larger by OVERLAP_THICKNESS in each direction, half on each side.
makeBoxMesh(xMin, xMax, yMin, yMax, zMin, zMax) ==
    [x0 |-> xMin, x1 |-> xMax, y0 |-> yMin, y1 |-> yMax, z0 |-> zMin, z1 |-> zMax,
     pad |-> OVERLAP_THICKNESS]

\* INTERSECTION of the geometry (moved to the origin first) with the box
cutByMeshBox(geometry, meshBox) ==
    LET g == trimBufferGeometryToOrigin(geometry) IN
    [g EXCEPT !.x0 = Max2(g.x0, meshBox.x0), !.x1 = Min2(g.x1, meshBox.x1),
              !.y0 = Max2(g.y0, meshBox.y0), !.y1 = Min2(g.y1, meshBox.y1),
              !.z0 = Max2(g.z0, meshBox.z0), !.z1 = Min2(g.z1, meshBox.z1)]

Named(g, part) == [g EXCEPT !.part = part]

(***************************************************************************)
(* Cell extractor: cutToGrid.                                              *)
(***************************************************************************)
ErrGridSize == "Grid size must be at least 2x2"
ErrNoGeometries == "No geometries to merge"
ErrMergeFailed == "Failed to merge geometries"

InvalidGridSize_And(n, m) == n < 2 /\ m < 2

\* the guard of cutToGrid
InvalidGridSize(n, m) == n < 2 \/ m < 2

\* sizes of the bounding box
SizeX(bb) == bb.x1 - bb.x0
SizeY(bb) == bb.y1 - bb.y0
SizeZ(bb) == bb.z1 - bb.z0

GridCellSize_Swapped(bb, n, m) ==
    [sizeX |-> ExactDiv(SizeX(bb), m),
     sizeY |-> ExactDiv(SizeY(bb), n),
     sizeZ |-> SizeZ(bb)]

\* gridSizeX = sizeX / n, gridSizeY = sizeY / m
GridCellSize(bb, n, m) ==
    [sizeX |-> ExactDiv(SizeX(bb), n),
     sizeY |-> ExactDiv(SizeY(bb), m),
     sizeZ |-> SizeZ(bb)]

NoGridResult == [geometry |-> NoGeom, sizeX |-> 0, sizeY |-> 0, sizeZ |-> 0]

\* cutToGrid past its guard: the GridResult
cutToGrid(base, n, m) ==
    LET bb == trimBufferGeometryToOrigin(base)
        cell == GridCellSize(bb, n, m)
        cornerPart == cutByMeshBox(bb,
            makeBoxMesh(bb.x0, bb.x0 + cell.sizeX,
                        bb.y0, bb.y0 + cell.sizeY,
                        bb.z0, bb.z0 + cell.sizeZ))
    IN [geometry |-> Named(trimBufferGeometryToOrigin(cornerPart), "cell"),
        sizeX |-> cell.sizeX, sizeY |-> cell.sizeY, sizeZ |-> cell.sizeZ]

(***************************************************************************)
(* Part decomposer: the 12 cutter boxes of cutToParts, from the bounding   *)
(* box bb of the cell and the corner radius.                               *)
(***************************************************************************)
bottomCorner2WBox(bb, cornerRadius) ==
    makeBoxMesh(bb.x0, bb.x0 + cornerRadius,
                bb.y0, bb.y0 + cornerRadius,
                bb.z0, bb.z0 + cornerRadius)

topCorner2WBox(bb, cornerRadius) ==
    makeBoxMesh(bb.x0, bb.x0 + cornerRadius,
                bb.y0, bb.y0 + cornerRadius,
                bb.z0 + SizeZ(bb) - cornerRadius, bb.z0 + SizeZ(bb))

bottomCorner1WRightBox(bb, cornerRadius) ==
    makeBoxMesh(bb.x0 + SizeX(bb) - cornerRadius, bb.x0 + SizeX(bb),
                bb.y0, bb.y0 + cornerRadius,
                bb.z0, bb.z0 + cornerRadius)

bottomCorner1WLeftBox(bb, cornerRadius) ==
    makeBoxMesh(bb.x0, bb.x0 + cornerRadius,
                bb.y0 + SizeY(bb) - cornerRadius, bb.y0 + SizeY(bb),
                bb.z0, bb.z0 + cornerRadius)

topCorner1WBox(bb, cornerRadius) ==
    makeBoxMesh(bb.x0 + SizeX(bb) - cornerRadius, bb.x0 + SizeX(bb),
                bb.y0, bb.y0 + cornerRadius,
                bb.z0 + SizeZ(bb) - cornerRadius, bb.z0 + SizeZ(bb))

bottomCorner0WBox(bb, cornerRadius) ==
    makeBoxMesh(bb.x0 + SizeX(bb) - cornerRadius, bb.x0 + SizeX(bb),
                bb.y0 + SizeY(bb) - cornerRadius, bb.y0 + SizeY(bb),
                bb.z0, bb.z0 + cornerRadius)

sideTopEdgesBox(bb, cornerRadius) ==
    makeBoxMesh(bb.x0 + cornerRadius, bb.x0 + SizeX(bb) - cornerRadius,
                bb.y0, bb.y0 + cornerRadius,
                bb.z0 + SizeZ(bb) - cornerRadius, bb.z0 + SizeZ(bb))

sideBottomEdgesBox(bb, cornerRadius) ==
    makeBoxMesh(bb.x0 + cornerRadius, bb.x0 + SizeX(bb) - cornerRadius,
                bb.y0, bb.y0 + cornerRadius,
                bb.z0, bb.z0 + cornerRadius)

sideEdge2WBox(bb, cornerRadius) ==
    makeBoxMesh(bb.x0, bb.x0 + cornerRadius,
                bb.y0, bb.y0 + cornerRadius,
                bb.z0 + cornerRadius, bb.z0 + SizeZ(bb) - cornerRadius)

sideWallBox_FromFloor(bb, cornerRadius) ==
    makeBoxMesh(bb.x0 + cornerRadius, bb.x0 + SizeX(bb) - cornerRadius,
                bb.y0, bb.y0 + cornerRadius,
                bb.z0, bb.z0 + SizeZ(bb) - cornerRadius)

sideWallBox(bb, cornerRadius) ==
    makeBoxMesh(bb.x0 + cornerRadius, bb.x0 + SizeX(bb) - cornerRadius,
                bb.y0, bb.y0 + cornerRadius,
                bb.z0 + cornerRadius, bb.z0 + SizeZ(bb) - cornerRadius)

bottomFloorBox_Whole(bb, cornerRadius) ==
    makeBoxMesh(bb.x0, bb.x0 + SizeX(bb),
                bb.y0, bb.y0 + SizeY(bb),
                bb.z0, bb.z0 + cornerRadius)

bottomFloorBox(bb, cornerRadius) ==
    makeBoxMesh(bb.x0 + cornerRadius, bb.x0 + SizeX(bb) - cornerRadius,
                bb.y0 + cornerRadius, bb.y0 + SizeY(bb) - cornerRadius,
                bb.z0, bb.z0 + cornerRadius)

bottomEdge0WBox(bb, cornerRadius) ==
    makeBoxMesh(bb.x0 + SizeX(bb) - cornerRadius, bb.x0 + SizeX(bb),
                bb.y0 + cornerRadius, bb.y0 + SizeY(bb) - cornerRadius,
                bb.z0, bb.z0 + cornerRadius)

PartNames ==
    <<"bottomCorner2W", "topCorner2W", "bottomCorner1WRightNear",
      "bottomCorner1WLeftFar", "topCorner1W", "bottomCorner0W", "sideTopEdges",
      "sideBottomEdges", "sideEdge2W", "sideWall", "bottomFloor", "bottomEdge0W">>

\* the cutter box of each of the 12 parts
CutterBoxes(bb, cornerRadius) ==
    [bottomCorner2W          |-> bottomCorner2WBox(bb, cornerRadius),
     topCorner2W             |-> topCorner2WBox(bb, cornerRadius),
     bottomCorner1WRightNear |-> bottomCorner1WRightBox(bb, cornerRadius),
     bottomCorner1WLeftFar   |-> bottomCorner1WLeftBox(bb, cornerRadius),
     topCorner1W             |-> topCorner1WBox(bb, cornerRadius),
     bottomCorner0W          |-> bottomCorner0WBox(bb, cornerRadius),
     sideTopEdges            |-> sideTopEdgesBox(bb, cornerRadius),
     sideBottomEdges         |-> sideBottomEdgesBox(bb, cornerRadius),
     sideEdge2W              |-> sideEdge2WBox(bb, cornerRadius),
     sideWall                |-> sideWallBox(bb, cornerRadius),
     bottomFloor             |-> bottomFloorBox(bb, cornerRadius),
     bottomEdge0W            |-> bottomEdge0WBox(bb, cornerRadius)]

\* cutToParts: each part is the cell cut by its box, then moved to the origin
cutToParts(cellGeom, cornerRadius) ==
    LET boxes == CutterBoxes(cellGeom, cornerRadius) IN
    [name \in DOMAIN boxes |->
        Named(trimBufferGeometryToOrigin(cutByMeshBox(cellGeom, boxes[name])), name)]

NoSubparts == [name \in {PartNames[i] : i \in 1..Len(PartNames)} |-> NoGeom]

(***************************************************************************)
(* Grid reassembler: the list of placed pieces built by reassemble.        *)
(* sub: Subparts, gr: GridResult, r: cornerCuttingRadius.                  *)
(***************************************************************************)
containerSizeX(gr, cols) == gr.sizeX * cols
containerSizeY(gr, rows) == gr.sizeY * rows

xIterations_BySizeY(gr, cols) == Round(containerSizeX(gr, cols), gr.sizeY)

\* Math.round(containerSizeX / gridResult.sizeX)
xIterations(gr, cols) == Round(containerSizeX(gr, cols), gr.sizeX)
\* Math.round(containerSizeY / gridResult.sizeY)
yIterations(gr, rows) == Round(containerSizeY(gr, rows), gr.sizeY)

\* one pass of the loop "for (let i = 0; i < 4; i++)": the triplet of corner i
OuterCorner(sub, r, X, Y, Z, i) ==
    LET bottomCorner2W == rotateZWithTrim(sub.bottomCorner2W, i)
        topCorner2W == rotateZWithTrim(sub.topCorner2W, i)
        topZposition == Z - r
        sideEdge2W == rotateZWithTrim(
            scale(sub.sideEdge2W, 1, 1, 1, 1, Z - 2 * r, sub.sideEdge2W.z1), i)
        sideEdge2WZposition == bottomCorner2W.z1
        cx == IF i \in {1, 2} THEN X - r ELSE 0
        cy == IF i \in {2, 3} THEN Y - r ELSE 0
    IN <<translate(bottomCorner2W, cx, cy, 0),
         translate(topCorner2W, cx, cy, topZposition),
         translate(sideEdge2W, cx, cy, sideEdge2WZposition)>>

OuterCorners(sub, r, X, Y, Z) ==
    Flatten([k \in 1..4 |-> OuterCorner(sub, r, X, Y, Z, k - 1)])

NearFarCornerGuard_Always(j) == j >= 0

\* "if (j > 0)" of the near / far loop
NearFarCornerGuard(j) == j > 0

\* one pass of the near / far loop
NearFarEdge(sub, gr, r, X, Y, j) ==
    LET sideBottomEdge == sub.sideBottomEdges
        sideBottomEdgeFar == rotateZWithTrim(sideBottomEdge, 2)
        corner1WNearLeft == sub.bottomCorner1WRightNear
        corner1WNearRight == flipGeometryWithTrim(corner1WNearLeft, "x")
        corner1WFarLeft == rotateZWithTrim(corner1WNearRight, 2)
        corner1WFarRight == rotateZWithTrim(corner1WNearLeft, 2)
    IN <<translate(sideBottomEdge, j * gr.sizeX + r, 0, 0),
         translate(sideBottomEdgeFar, j * gr.sizeX + r, Y - r, 0)>>
       \o (IF NearFarCornerGuard(j)
           THEN <<translate(corner1WNearLeft, j * gr.sizeX - r, 0, 0),
                  translate(corner1WNearRight, j * gr.sizeX, 0, 0),
                  translate(corner1WFarLeft, j * gr.sizeX - r, Y - r, 0),
                  translate(corner1WFarRight, j * gr.sizeX, Y - r, 0)>>
           ELSE <<>>)

NearFarEdges(sub, gr, r, X, Y, cols) ==
    Flatten([k \in 1..xIterations(gr, cols) |-> NearFarEdge(sub, gr, r, X, Y, k - 1)])

\* "if (j > 0)" of the left / right loop
LeftRightCornerGuard(j) == j > 0

\* one pass of the left / right loop
LeftRightEdge(sub, gr, r, X, Y, j) ==
    LET sideBottomLeftEdge == rotateZWithTrim(sub.sideBottomEdges, -1)
        sideBottomRightEdge == rotateZWithTrim(sideBottomLeftEdge, 2)
        cornerLeft1WNear == sub.bottomCorner1WLeftFar
        cornerLeft1WFar == flipGeometryWithTrim(cornerLeft1WNear, "y")
        cornerRight1WNear == trimBufferGeometryToOrigin(rotateZ(cornerLeft1WFar, 2))
        cornerRight1WFar == trimBufferGeometryToOrigin(rotateZ(cornerLeft1WNear, 2))
    IN <<translate(sideBottomLeftEdge, 0, j * gr.sizeY + r, 0),
         translate(sideBottomRightEdge, X - r, j * gr.sizeY + r, 0)>>
       \o (IF LeftRightCornerGuard(j)
           THEN <<translate(cornerLeft1WNear, 0, j * gr.sizeY - r, 0),
                  translate(cornerLeft1WFar, 0, j * gr.sizeY, 0),
                  translate(cornerRight1WNear, X - r, j * gr.sizeY - r, 0),
                  translate(cornerRight1WFar, X - r, j * gr.sizeY, 0)>>
           ELSE <<>>)

LeftRightEdges(sub, gr, r, X, Y, rows) ==
    Flatten([k \in 1..yIterations(gr, rows) |-> LeftRightEdge(sub, gr, r, X, Y, k - 1)])

\* "if (y > 0)", "if (x > 0)", "if (x > 0 && y > 0)" of the interior tiling
SeamAcrossYGuard(y) == y > 0
SeamAcrossXGuard(x) == x > 0
Corner0WGuard_Or(x, y) == x > 0 \/ y > 0

Corner0WGuard(x, y) == x > 0 /\ y > 0

\* one pass of the inner loop of the interior tiling
InteriorCell(sub, gr, r, x, y) ==
    LET bottomFloor == sub.bottomFloor
        bottomEdge0WLeftNear == rotateZWithTrim(sub.bottomEdge0W, 1)
        bottomEdge0WLeftFar == rotateZWithTrim(sub.bottomEdge0W, -1)
        bottomEdge0WNearLeft == sub.bottomEdge0W
        bottomEdge0WNearRight == rotateZWithTrim(bottomEdge0WNearLeft, 2)
        bottomCorner0WLeftNear == sub.bottomCorner0W
        bottomCorner0WLeftFar == rotateZWithTrim(bottomCorner0WLeftNear, -1)
        bottomCorner0WRightFar == rotateZWithTrim(bottomCorner0WLeftNear, 2)
        bottomCorner0WRightNear == rotateZWithTrim(bottomCorner0WLeftNear, 1)
    IN <<translate(bottomFloor, x * gr.sizeX + r, y * gr.sizeY + r, 0)>>
       \o (IF SeamAcrossYGuard(y)
           THEN <<translate(bottomEdge0WLeftNear, x * gr.sizeX + r, y * gr.sizeY - r, 0),
                  translate(bottomEdge0WLeftFar, x * gr.sizeX + r, y * gr.sizeY, 0)>>
           ELSE <<>>)
       \o (IF SeamAcrossXGuard(x)
           THEN <<translate(bottomEdge0WNearLeft, x * gr.sizeX - r, y * gr.sizeY + r, 0),
                  translate(bottomEdge0WNearRight, x * gr.sizeX, y * gr.sizeY + r, 0)>>
           ELSE <<>>)
       \o (IF Corner0WGuard(x, y)
           THEN <<translate(bottomCorner0WLeftNear, x * gr.sizeX - r, y * gr.sizeY - r, 0),
                  translate(bottomCorner0WLeftFar, x * gr.sizeX - r, y * gr.sizeY, 0),
                  translate(bottomCorner0WRightFar, x * gr.sizeX, y * gr.sizeY, 0),
                  translate(bottomCorner0WRightNear, x * gr.sizeX, y * gr.sizeY - r, 0)>>
           ELSE <<>>)

\* "for x { for y { ... } }"
InteriorTiling(sub, gr, r, rows, cols) ==
    Flatten([kx \in 1..xIterations(gr, cols) |->
        Flatten([ky \in 1..yIterations(gr, rows) |->
            InteriorCell(sub, gr, r, kx - 1, ky - 1)])])

\* the four side walls and their top edges
FarWallOffsetY_Inset(Y, wall) == Y - wall.y1 - (wall.y1 - wall.y0)

\* "containerSizeY - farSideWall.boundingBox!.max.y"
FarWallOffsetY(Y, wall) == Y - wall.y1

LeftWallHeight_NoOverlap(height, r) == height - 2 * r

\* "height - 2 * cornerCuttingRadius + OVERLAP_THICKNESS"
LeftWallHeight(height, r) == height - 2 * r + OVERLAP_THICKNESS

SideWalls(sub, r, X, Y, height) ==
    LET containerSizeZ == height
        nearSideWall ==
            translate(trimBufferGeometryToOrigin(
                scale(sub.sideWall, X - 2 * r, sub.sideWall.x1, 1, 1,
                      height - 2 * r, sub.sideWall.z1)), r, 0, r)
        farSideWall0 == rotateZWithTrim(nearSideWall, 2)
        farSideWall == translate(farSideWall0, r, FarWallOffsetY(Y, farSideWall0), r)
        nearSideTopEdge ==
            translate(trimBufferGeometryToOrigin(
                scale(sub.sideTopEdges, X - 2 * r, sub.sideTopEdges.x1, 1, 1, 1, 1)),
                r, 0, containerSizeZ - r)
        farSideTopEdge0 == rotateZWithTrim(nearSideTopEdge, 2)
        farSideTopEdge ==
            translate(farSideTopEdge0, r, Y - farSideTopEdge0.y1, containerSizeZ - r)
        leftSideWall0 == rotateZWithTrim(sub.sideWall, -1)
        leftSideWall ==
            translate(trimBufferGeometryToOrigin(
                scale(leftSideWall0, 1, 1, Y - 2 * r, leftSideWall0.y1,
                      LeftWallHeight(height, r), leftSideWall0.z1)), 0, r, r)
        rightSideWall0 == rotateZWithTrim(leftSideWall, 2)
        rightSideWall == translate(rightSideWall0, X - rightSideWall0.x1, r, r)
        leftSideTopEdge0 == rotateZWithTrim(sub.sideTopEdges, -1)
        leftSideTopEdge ==
            translate(trimBufferGeometryToOrigin(
                scale(leftSideTopEdge0, 1, 1, Y - 2 * r, leftSideTopEdge0.y1, 1, 1)),
                0, r, containerSizeZ - r)
        rightSideTopEdge0 == rotateZWithTrim(leftSideTopEdge, 2)
        rightSideTopEdge ==
            translate(rightSideTopEdge0, X - rightSideTopEdge0.x1, r, containerSizeZ - r)
    IN <<nearSideWall, farSideWall, nearSideTopEdge, farSideTopEdge,
         leftSideWall, rightSideWall, leftSideTopEdge, rightSideTopEdge>>

\* the array `geometries` of reassemble, in push order
PlacedPieces(sub, gr, r, height, rows, cols) ==
    LET X == containerSizeX(gr, cols)
        Y == containerSizeY(gr, rows)
    IN OuterCorners(sub, r, X, Y, height)
       \o NearFarEdges(sub, gr, r, X, Y, cols)
       \o LeftRightEdges(sub, gr, r, X, Y, rows)
       \o InteriorTiling(sub, gr, r, rows, cols)
       \o SideWalls(sub, r, X, Y, height)

reassemble_WithDividers(sub, gr, r, height, rows, cols, dividerThickness, unionAll) ==
    PlacedPieces(sub, gr, r, height, rows, cols)
        \o (IF IsDefined(dividerThickness) /\ Value(dividerThickness) > 0
            THEN <<Named(scale(sub.sideWall, Value(dividerThickness), r, 1, 1, 1, 1),
                         "divider")>>
            ELSE <<>>)

\* reassemble: the list `geometries` it merges; dividerThickness and unionAll
\* are not read while the list is built
reassemble(sub, gr, r, height, rows, cols, dividerThickness, unionAll) ==
    PlacedPieces(sub, gr, r, height, rows, cols)

(***************************************************************************)
(* Mesh merge and repair.  A mesh is [position, index, normal]: position   *)
(* is the sequence of vertex positions <<x, y, z>>, index the sequence of  *)
(* triangles <<a, b, c>> of 0-based vertex indices, normal tells whether   *)
(* the mesh has a normal attribute.                                        *)
(***************************************************************************)
Mesh(position, index) == [position |-> position, index |-> index, normal |-> TRUE]

NoMesh == [position |-> <<>>, index |-> <<>>, normal |-> FALSE]

\* positions.getX / getY / getZ of vertex i
Pos(g, i) == g.position[i + 1]

\* geometry.attributes.position.array.length
VerticesLength(g) == 3 * Len(g.position)

\* ~~(v * hashMultiplier + hashAdditive) of BufferGeometryUtils.mergeVertices
HashCoord(v, tolerance) ==
    LET num == 2 * v + tolerance
        den == 2 * tolerance
    IN IF num >= 0 THEN num \div den ELSE -((-num) \div den)

HashVertex(p, tolerance) ==
    <<HashCoord(p[1], tolerance), HashCoord(p[2], tolerance), HashCoord(p[3], tolerance)>>

\* index of the first element of seq whose hash is h, 0 if none
RECURSIVE FindHash(_, _, _, _)
FindHash(seq, h, tolerance, k) ==
    IF k > Len(seq) THEN 0
    ELSE IF HashVertex(seq[k], tolerance) = h THEN k
    ELSE FindHash(seq, h, tolerance, k + 1)

\* the loop of mergeVertices over the flat index buffer:
\* newPos are the vertices kept so far, newIdx the indices written so far
\* (what a pass hands to the next is bound by a quantifier, so that it is
\* evaluated once)
RECURSIVE MergeLoop(_, _, _, _, _)
MergeLoop(g, flat, tolerance, newPos, newIdx) ==
    IF Len(flat) = 0 THEN <<newPos, newIdx>>
    ELSE LET p == Pos(g, Head(flat))
             k == FindHash(newPos, HashVertex(p, tolerance), tolerance, 1)
             pushed == IF k > 0
                       THEN <<newPos, Append(newIdx, k - 1)>>
                       ELSE <<Append(newPos, p), Append(newIdx, Len(newPos))>>
         IN CHOOSE res \in {MergeLoop(g, rest, tolerance, n[1], n[2]) :
                                n \in {pushed}, rest \in {Tail(flat)}} : TRUE

\* groups a flat index buffer into triangles
RECURSIVE Triangles(_)
Triangles(flat) ==
    IF Len(flat) < 3 THEN <<>>
    ELSE <<SubSeq(flat, 1, 3)>> \o Triangles(SubSeq(flat, 4, Len(flat)))

\* BufferGeometryUtils.mergeVertices(geometry, tolerance)
mergeVertices(g, tolerance) ==
    CHOOSE welded \in {[h EXCEPT !.position = res[1], !.index = Triangles(res[2])] :
                            h \in {g},
                            res \in {MergeLoop(g, flat, tolerance, <<>>, <<>>) :
                                        flat \in {Flatten(g.index)}}} : TRUE

\* decimal digits of n >= 0, most significant first
RECURSIVE Digits(_)
Digits(n) == IF n < 10 THEN <<n>> ELSE Append(Digits(n \div 10), n % 10)

\* String(a) < String(b), the order of Array.prototype.sort() without comparator
RECURSIVE LexLess(_, _)
LexLess(s, t) ==
    IF Len(t) = 0 THEN FALSE
    ELSE IF Len(s) = 0 THEN TRUE
    ELSE IF Head(s) # Head(t) THEN Head(s) < Head(t)
    ELSE LexLess(Tail(s), Tail(t))

StringLess(a, b) == LexLess(Digits(a), Digits(b))

\* [a, b, c].sort()
SortTriple(t) ==
    LET le(u, v) == ~StringLess(v, u)
        s12 == IF le(t[1], t[2]) THEN <<t[1], t[2]>> ELSE <<t[2], t[1]>>
    IN IF le(s12[2], t[3]) THEN <<s12[1], s12[2], t[3]>>
       ELSE IF le(s12[1], t[3]) THEN <<s12[1], t[3], s12[2]>>
       ELSE <<t[3], s12[1], s12[2]>>

FaceKey_Unsorted(t) == t

\* [a, b, c].sort().join(',')
FaceKey(t) == SortTriple(t)

\* the loop of removeDuplicateFaces
RECURSIVE DedupLoop(_, _, _)
DedupLoop(tris, uniqueFaces, newIndices) ==
    IF Len(tris) = 0 THEN newIndices
    ELSE LET key == FaceKey(Head(tris)) IN
         IF key \notin uniqueFaces
         THEN DedupLoop(Tail(tris), uniqueFaces \cup {key}, Append(newIndices, Head(tris)))
         ELSE DedupLoop(Tail(tris), uniqueFaces, newIndices)

removeDuplicateFaces(g) == [g EXCEPT !.index = DedupLoop(g.index, {}, <<>>)]

\* (2 * triangleArea)^2: the squared magnitude of the cross product AB x AC
CrossSquared(A, B, C) ==
    LET ABx == B[1] - A[1]  ABy == B[2] - A[2]  ABz == B[3] - A[3]
        ACx == C[1] - A[1]  ACy == C[2] - A[2]  ACz == C[3] - A[3]
        crossX == ABy * ACz - ABz * ACy
        crossY == ABz * ACx - ABx * ACz
        crossZ == ABx * ACy - ABy * ACx
    IN crossX * crossX + crossY * crossY + crossZ * crossZ

KeepTriangle_NotBelow(g, t) ==
    CrossSquared(Pos(g, t[1]), Pos(g, t[2]), Pos(g, t[3]))
        >= 4 * MIN_TRIANGLE_AREA * MIN_TRIANGLE_AREA

\* "area > MIN_TRIANGLE_AREA" with area = 0.5 * sqrt(CrossSquared)
KeepTriangle(g, t) ==
    CrossSquared(Pos(g, t[1]), Pos(g, t[2]), Pos(g, t[3]))
        > 4 * MIN_TRIANGLE_AREA * MIN_TRIANGLE_AREA

\* position of v in seq, 0 if absent
RECURSIVE IndexOf(_, _, _)
IndexOf(seq, v, k) ==
    IF k > Len(seq) THEN 0
    ELSE IF seq[k] = v THEN k ELSE IndexOf(seq, v, k + 1)

\* usedVertices after the loop: a Set iterates in insertion order, so it is
\* the indices of the kept triangles in the order of their first occurrence
UsedVertices(flat) ==
    LET firsts == SelectSeq([k \in 1..Len(flat) |-> <<k, flat[k]>>],
                     LAMBDA e : \A j \in 1..(e[1] - 1) : flat[j] # e[2])
    IN [k \in 1..Len(firsts) |-> firsts[k][2]]

removeDegenerateTriangles(g) ==
    LET newIndices == SelectSeq(g.index, LAMBDA t : KeepTriangle(g, t))
        usedVertices == UsedVertices(Flatten(newIndices))
        newPositions == [k \in 1..Len(usedVertices) |-> Pos(g, usedVertices[k])]
        remapped == [k \in 1..Len(newIndices) |->
                        [c \in 1..3 |-> IndexOf(usedVertices, newIndices[k][c], 1) - 1]]
    IN [position |-> newPositions, index |-> remapped, normal |-> TRUE]

\* one pass of the do-while loop of fixNonManifoldGeometry
RepairPass(out) ==
    LET o1 == mergeVertices([out EXCEPT !.normal = FALSE], MERGE_VERTICES_TOLERANCE)
        o2 == removeDuplicateFaces(o1)
        o3 == removeDegenerateTriangles(o2)
        o4 == mergeVertices(o3, MERGE_VERTICES_TOLERANCE)
    IN [o4 EXCEPT !.normal = TRUE]

\* `output` when the do-while loop of fixNonManifoldGeometry exits
RECURSIVE RepairLoop(_)
RepairLoop(out) ==
    LET after == RepairPass(out) IN
    IF VerticesLength(after) = VerticesLength(out) THEN after
    ELSE RepairLoop(after)

fixNonManifoldGeometry_DedupThenWeld(geometry) ==
    [mergeVertices(removeDuplicateFaces([geometry EXCEPT !.normal = FALSE]),
                   MERGE_VERTICES_TOLERANCE) EXCEPT !.normal = TRUE]

\* fixNonManifoldGeometry: it runs the loop on `output` and returns `geometry`,
\* whose normal attribute the first pass has deleted
fixNonManifoldGeometry(geometry) ==
    LET out == RepairLoop(geometry)
    IN [geometry EXCEPT !.normal = FALSE]

\* the undirected edge i1, i2 as addEdge keys it
EdgeKey(i1, i2) == IF i2 < i1 THEN <<i2, i1>> ELSE <<i1, i2>>

\* the three edges of each triangle, in the order addEdge sees them
EdgeList(g) ==
    Flatten([k \in 1..Len(g.index) |->
        LET t == g.index[k] IN
        <<EdgeKey(t[1], t[2]), EdgeKey(t[2], t[3]), EdgeKey(t[3], t[1])>>])

\* edgeCount[edgeKey]
EdgeCount(g, e) ==
    LET edges == EdgeList(g) IN Cardinality({k \in 1..Len(edges) : edges[k] = e})

\* the edges that make hasNonManifoldEdges return true
NonManifoldEdges(g) ==
    LET edges == EdgeList(g) IN
    {e \in {edges[k] : k \in 1..Len(edges)} : EdgeCount(g, e) > 2 \/ EdgeCount(g, e) < 2}

hasNonManifoldEdges(g) == NonManifoldEdges(g) # {}

(***************************************************************************)
(* Inputs of the model.                                                    *)
(***************************************************************************)
\* input solids: 240 or 480 wide and deep, so that every grid size up to
\* MaxInputGrid + 1 divides them, at several places in space
BaseSolids ==
    {Geom("base", 0, 240, 0, 240, 0, 120),
     Geom("base", -240, 240, 0, 240, 0, 160),
     Geom("base", 50, 290, -480, 0, 30, 150),
     Geom("base", -100, 380, 200, 680, -160, 0)}

CornerRadii == {20, 40}
Heights == {100, 900}
OutputGridSizes == {None, Some(480)}
DividerThicknesses == {None, Some(1000)}

\* outputGrids: the grids of a container, and the grids with a zero
OutputGridChoices ==
    ((1..MaxOutputGrid) \X (1..MaxOutputGrid)) \cup {<<0, 1>>, <<1, 0>>, <<0, 0>>}

\* the switches that do not enter the geometry and the presence of the
\* ./debug directory, in five combinations in which every pair of values of
\* two of them occurs
FlagChoices ==
    {[dividerThickness |-> None, unionAll |-> FALSE, debug |-> FALSE, debugDir |-> FALSE],
     [dividerThickness |-> None, unionAll |-> TRUE, debug |-> TRUE, debugDir |-> TRUE],
     [dividerThickness |-> Some(1000), unionAll |-> FALSE, debug |-> TRUE, debugDir |-> TRUE],
     [dividerThickness |-> Some(1000), unionAll |-> TRUE, debug |-> FALSE, debugDir |-> TRUE],
     [dividerThickness |-> Some(1000), unionAll |-> TRUE, debug |-> TRUE, debugDir |-> FALSE]}

\* whether ./debug exists in the runs made with these options
DebugDirChoices(opts) ==
    {f.debugDir : f \in {c \in FlagChoices :
        /\ c.dividerThickness = opts.dividerThickness
        /\ c.unionAll = opts.unionAll
        /\ c.debug = opts.debug}}

OptionSets ==
    {[inputGrids |-> g.inputGrids,
      inputCornerRadius |-> g.inputCornerRadius,
      height |-> g.height,
      outputGrids |-> g.outputGrids,
      outputGridSize |-> g.outputGridSize,
      dividerThickness |-> f.dividerThickness,
      unionAll |-> f.unionAll,
      debug |-> f.debug] :
        g \in [inputGrids : (1..MaxInputGrid) \X (1..MaxInputGrid),
               inputCornerRadius : CornerRadii,
               height : Heights,
               outputGrids : OutputGridChoices,
               outputGridSize : OutputGridSizes],
        f \in FlagChoices}

\* the scale factor of Gridifier as a fraction <<num, den>>: outputGridSize / sizeX
ScaleOf(opts, sizeX) ==
    IF IsDefined(opts.outputGridSize) THEN <<Value(opts.outputGridSize), sizeX>>
    ELSE <<1, 1>>

\* the documented precondition of the caller: 0 < r < min(cellSizeX, cellSizeY) / 2,
\* r < sizeZ / 2 and r < height / 2, r being the radius after rescaling
RadiusFits(sizeX, sizeY, sizeZ, r) ==
    r > 0 /\ 2 * r < sizeX /\ 2 * r < sizeY /\ 2 * r < sizeZ

CallerPrecondition(base, opts) ==
    LET sizeX == ExactDiv(SizeX(base), opts.inputGrids[1])
        sizeY == ExactDiv(SizeY(base), opts.inputGrids[2])
        sc == ScaleOf(opts, sizeX)
    IN /\ RadiusFits(sizeX, sizeY, SizeZ(base), opts.inputCornerRadius)
       /\ 2 * opts.inputCornerRadius * sc[1] < opts.height * sc[2]

\* vertex positions: P3 coincides with P0; P0 P1 P4 is a sliver of area 500,
\* P0 P1 P5 has area exactly MIN_TRIANGLE_AREA
VertexBuffer ==
    <<<<0, 0, 0>>, <<100, 0, 0>>, <<0, 100, 50>>, <<0, 0, 0>>, <<0, 10, 0>>, <<0, 20, 0>>>>

VertexCounts == {3, 4, 6}

TriChoices ==
    {<<0, 1, 2>>, <<1, 2, 0>>, <<2, 1, 0>>, <<0, 2, 1>>, <<3, 1, 2>>, <<3, 2, 1>>,
     <<0, 1, 4>>, <<0, 1, 5>>, <<0, 0, 1>>, <<1, 2, 4>>, <<0, 0, 2>>}

SeqsUpTo(S, n) == UNION {[1..k -> S] : k \in 0..n}

\* the indexed meshes the repair is run on
Meshes ==
    UNION {{Mesh(SubSeq(VertexBuffer, 1, nv), idx) :
                idx \in SeqsUpTo({t \in TriChoices : \A c \in 1..3 : t[c] < nv}, MaxTris)} :
           nv \in VertexCounts}

\* results of the external merge (mergeGeometries or unionAllGeometry) in a run
MergedSamples ==
    {Mesh(SubSeq(VertexBuffer, 1, 3), <<<<0, 1, 2>>>>),
     Mesh(SubSeq(VertexBuffer, 1, 4), <<<<0, 1, 2>>, <<3, 2, 1>>>>)}

\* no command line: Gridifier is called as a library
NoArgv == [inputGrids |-> <<>>, outputGrids |-> <<>>]

\* main has not acted
NoCli == [outputFile |-> None, madeDir |-> FALSE, exitCode |-> None, printed |-> <<>>]

\* reassemble has not been entered statement by statement
NoReassembly ==
    [rows |-> 0, cols |-> 0, ip |-> 0, heap |-> <<>>, locals |-> <<>>, pushed |-> <<>>]

\* useState initial value of gridifierParams
InitialParams ==
    [inputGrids |-> <<4, 2>>, inputCornerRadius |-> 10, height |-> 45,
     outputGrids |-> <<1, 3>>, outputGridSize |-> None,
     dividerThickness |-> None, unionAll |-> FALSE]

\* no call of handleGenerateModel is under way
NoCall ==
    [at |-> "idle", selectedFile |-> None, gridifierParams |-> InitialParams,
     inputBuffer |-> None]

\* the state of Home at its first render
FirstRender ==
    [selectedFile |-> None, useDefaultModel |-> TRUE, generatedSTL |-> None,
     isGenerating |-> FALSE, gridifierParams |-> InitialParams, errorMessage |-> None,
     call |-> NoCall]

\* the page is not open
NoPage == [FirstRender EXCEPT !.call.at = "closed"]

\* the download route has received no request
NoRoute == [requests |-> <<>>, readable |-> TRUE]

\* what the merge returns: unionAllGeometry returns a geometry, mergeGeometries
\* returns a geometry or null
MergeResults(unionAll) ==
    {Some(mesh) : mesh \in MergedSamples} \cup (IF unionAll THEN {} ELSE {None})

ErrInputNotFound == "Input file not found"

(***************************************************************************)
(* The run of Gridifier.                                                   *)
(***************************************************************************)
\* const [n, m] = inputGrids
N == options.inputGrids[1]
M == options.inputGrids[2]
\* const [rows, cols] = outputGrids
Rows == options.outputGrids[1]
Cols == options.outputGrids[2]

Init ==
    /\ pc = "main"
    /\ options \in OptionSets
    /\ debugDir \in DebugDirChoices(options)
    /\ baseGeom \in BaseSolids
    /\ CallerPrecondition(baseGeom, options)
    /\ originalGridResult = NoGridResult
    /\ gridResult = NoGridResult
    /\ cornerCuttingRadius = 0
    /\ subparts = NoSubparts
    /\ geometries = <<>>
    /\ merged = NoMesh
    /\ fixed = NoMesh
    /\ refixed = NoMesh
    /\ err = ""
    /\ artifacts = <<>>
    /\ output = NoMesh
    /\ stepInput = NoMesh
    /\ verticesLengthBegin = 0
    /\ argv = NoArgv
    /\ cli = NoCli
    /\ context = ""
    /\ diagnostic = None
    /\ reassembly = NoReassembly
    /\ page = NoPage
    /\ route = NoRoute

\* main: "if (!fs.existsSync(input))", readFileSync and the call of Gridifier
Main ==
    /\ pc = "main"
    /\ \E inputExists \in BOOLEAN :
          IF inputExists
          THEN pc' = "load" /\ err' = err
          ELSE pc' = "failed" /\ err' = ErrInputNotFound
    /\ UNCHANGED <<options, debugDir, baseGeom, originalGridResult, gridResult,
                   cornerCuttingRadius, subparts, geometries, merged, fixed, refixed,
                   artifacts, output, stepInput, verticesLengthBegin>>
    /\ UNCHANGED <<argv, cli, context, diagnostic, reassembly, page, route>>

\* Gridifier, "1) Load the base n x m geometry", with the debug re-cut
LoadBase ==
    /\ pc = "load"
    /\ IF debugDir
       THEN LET g == trimBufferGeometryToOrigin(baseGeom) IN
            /\ baseGeom' = cutByMeshBox(g, makeBoxMesh(g.x0, g.x1, g.y0, g.y1, g.z0, g.z1))
            /\ artifacts' = Append(artifacts, "base.stl")
       ELSE UNCHANGED <<baseGeom, artifacts>>
    /\ pc' = "cutToGrid"
    /\ UNCHANGED <<options, debugDir, originalGridResult, gridResult,
                   cornerCuttingRadius, subparts, geometries, merged, fixed, refixed,
                   err, output, stepInput, verticesLengthBegin>>
    /\ UNCHANGED <<argv, cli, context, diagnostic, reassembly, page, route>>

\* Gridifier, "cut the 1x1 grid out in the corner": the call of cutToGrid
CutToGrid ==
    /\ pc = "cutToGrid"
    /\ IF InvalidGridSize(N, M)
       THEN /\ err' = ErrGridSize
            /\ pc' = "failed"
            /\ UNCHANGED <<baseGeom, originalGridResult>>
       ELSE /\ originalGridResult' = cutToGrid(baseGeom, N, M)
            /\ baseGeom' = trimBufferGeometryToOrigin(baseGeom)
            /\ pc' = "scale"
            /\ err' = err
    /\ UNCHANGED <<options, debugDir, gridResult, cornerCuttingRadius, subparts,
                   geometries, merged, fixed, refixed, artifacts, output, stepInput,
                   verticesLengthBegin>>
    /\ UNCHANGED <<argv, cli, context, diagnostic, reassembly, page, route>>

ScaleGrid_RadiusUnscaled ==
    /\ pc = "scale"
    /\ IF IsDefined(options.outputGridSize)
       THEN LET sc == ScaleOf(options, originalGridResult.sizeX)
                scaledGeometry == trimBufferGeometryToOrigin(
                    scale(originalGridResult.geometry, sc[1], sc[2], sc[1], sc[2],
                          sc[1], sc[2]))
            IN /\ gridResult' =
                     [geometry |-> scaledGeometry,
                      sizeX |-> ExactDiv(originalGridResult.sizeX * sc[1], sc[2]),
                      sizeY |-> ExactDiv(originalGridResult.sizeY * sc[1], sc[2]),
                      sizeZ |-> ExactDiv(originalGridResult.sizeZ * sc[1], sc[2])]
               /\ cornerCuttingRadius' = options.inputCornerRadius
       ELSE /\ gridResult' = originalGridResult
            /\ cornerCuttingRadius' = options.inputCornerRadius
    /\ artifacts' = IF debugDir THEN Append(artifacts, "grid.stl") ELSE artifacts
    /\ pc' = "cutToParts"
    /\ UNCHANGED <<options, debugDir, baseGeom, originalGridResult, subparts,
                   geometries, merged, fixed, refixed, err, output, stepInput,
                   verticesLengthBegin>>
    /\ UNCHANGED <<argv, cli, context, diagnostic, reassembly, page, route>>

\* Gridifier, "scale the grid size by the outputGridSize"
ScaleGrid ==
    /\ pc = "scale"
    /\ IF IsDefined(options.outputGridSize)
       THEN LET sc == ScaleOf(options, originalGridResult.sizeX)
                scaledGeometry == trimBufferGeometryToOrigin(
                    scale(originalGridResult.geometry, sc[1], sc[2], sc[1], sc[2],
                          sc[1], sc[2]))
            IN /\ gridResult' =
                     [geometry |-> scaledGeometry,
                      sizeX |-> ExactDiv(originalGridResult.sizeX * sc[1], sc[2]),
                      sizeY |-> ExactDiv(originalGridResult.sizeY * sc[1], sc[2]),
                      sizeZ |-> ExactDiv(originalGridResult.sizeZ * sc[1], sc[2])]
               /\ cornerCuttingRadius' = ExactDiv(options.inputCornerRadius * sc[1], sc[2])
       ELSE /\ gridResult' = originalGridResult
            /\ cornerCuttingRadius' = options.inputCornerRadius
    /\ artifacts' = IF debugDir THEN Append(artifacts, "grid.stl") ELSE artifacts
    /\ pc' = "cutToParts"
    /\ UNCHANGED <<options, debugDir, baseGeom, originalGridResult, subparts,
                   geometries, merged, fixed, refixed, err, output, stepInput,
                   verticesLengthBegin>>
    /\ UNCHANGED <<argv, cli, context, diagnostic, reassembly, page, route>>

\* Gridifier, "cut the 1x1 grid to sub-parts"
CutToParts ==
    /\ pc = "cutToParts"
    /\ subparts' = cutToParts(gridResult.geometry, cornerCuttingRadius)
    /\ artifacts' = IF debugDir
                    THEN artifacts \o [k \in 1..Len(PartNames) |-> PartNames[k] \o ".stl"]
                    ELSE artifacts
    /\ pc' = "reassemble"
    /\ UNCHANGED <<options, debugDir, baseGeom, originalGridResult, gridResult,
                   cornerCuttingRadius, geometries, merged, fixed, refixed, err,
                   output, stepInput, verticesLengthBegin>>
    /\ UNCHANGED <<argv, cli, context, diagnostic, reassembly, page, route>>

\* Gridifier, "re-assemble the sub-parts into a larger container": reassemble
Reassemble ==
    /\ pc = "reassemble"
    /\ LET pieces == reassemble(subparts, gridResult, cornerCuttingRadius,
                                options.height, Rows, Cols, options.dividerThickness,
                                options.unionAll)
       IN IF Len(pieces) = 0
          THEN /\ err' = ErrNoGeometries
               /\ pc' = "failed"
               /\ UNCHANGED <<geometries, merged, fixed>>
          ELSE /\ geometries' = pieces
               /\ \E result \in MergeResults(options.unionAll) :
                    IF IsDefined(result)
                    THEN /\ merged' = Value(result)
                         /\ fixed' = fixNonManifoldGeometry(Value(result))
                         /\ pc' = "export"
                         /\ err' = err
                    ELSE /\ err' = ErrMergeFailed
                         /\ pc' = "failed"
                         /\ UNCHANGED <<merged, fixed>>
    /\ UNCHANGED <<options, debugDir, baseGeom, originalGridResult, gridResult,
                   cornerCuttingRadius, subparts, refixed, artifacts, output, stepInput,
                   verticesLengthBegin>>
    /\ UNCHANGED <<argv, cli, context, diagnostic, reassembly, page, route>>

\* Gridifier, "Exporting...": the run returns the STL of `merged`
Export ==
    /\ pc = "export"
    /\ artifacts' = IF debugDir THEN Append(artifacts, "merged.stl") ELSE artifacts
    /\ pc' = "done"
    /\ UNCHANGED <<options, debugDir, baseGeom, originalGridResult, gridResult,
                   cornerCuttingRadius, subparts, geometries, merged, fixed, refixed,
                   err, output, stepInput, verticesLengthBegin>>
    /\ UNCHANGED <<argv, cli, context, diagnostic, reassembly, page, route>>

PipelineFrame ==
    UNCHANGED <<options, debugDir, baseGeom, originalGridResult, gridResult,
                cornerCuttingRadius, subparts, geometries, merged, fixed, refixed,
                err, artifacts, output, stepInput, verticesLengthBegin, argv, context, diagnostic, reassembly, page, route>>

MainWrite_OnFailureToo ==
    /\ pc \in {"done", "failed"}
    /\ \E outDirExists \in BOOLEAN :
          cli' = [cli EXCEPT !.outputFile = Some(fixed), !.madeDir = ~outDirExists,
                             !.exitCode = Some(0)]
    /\ pc' = "exited"
    /\ PipelineFrame

\* main after Gridifier has returned: "Ensure output directory exists",
\* writeFileSync(outputFile, stlString); the process then ends with status 0
MainWrite ==
    /\ pc = "done"
    /\ \E outDirExists \in BOOLEAN :
          cli' = [cli EXCEPT !.outputFile = Some(fixed), !.madeDir = ~outDirExists,
                             !.exitCode = Some(0)]
    /\ pc' = "exited"
    /\ PipelineFrame

\* main(opts).catch: console.error('Error:', err), process.exit(1)
MainCatch ==
    /\ pc = "failed"
    /\ cli' = [cli EXCEPT !.printed = Append(cli.printed, err), !.exitCode = Some(1)]
    /\ pc' = "exited"
    /\ PipelineFrame

Next ==
    \/ Main \/ LoadBase \/ CutToGrid \/ ScaleGrid \/ CutToParts \/ Reassemble \/ Export
    \/ MainWrite \/ MainCatch

Spec == Init /\ [][Next]_vars

(***************************************************************************)
(* The repair run on its own: fixNonManifoldGeometry applied to a merged   *)
(* mesh, step by step, then applied again to its own result; and           *)
(* removeDuplicateFaces applied to a mesh as it is.                        *)
(***************************************************************************)
InitRepair ==
    /\ pc = "fix"
    /\ merged \in Meshes
    /\ output = merged
    /\ stepInput = NoMesh
    /\ verticesLengthBegin = 0
    /\ options = CHOOSE o \in OptionSets : TRUE
    /\ debugDir = FALSE
    /\ baseGeom = NoGeom
    /\ originalGridResult = NoGridResult
    /\ gridResult = NoGridResult
    /\ cornerCuttingRadius = 0
    /\ subparts = NoSubparts
    /\ geometries = <<>>
    /\ fixed = NoMesh
    /\ refixed = NoMesh
    /\ err = ""
    /\ artifacts = <<>>
    /\ argv = NoArgv
    /\ cli = NoCli
    /\ context = ""
    /\ diagnostic = None
    /\ reassembly = NoReassembly
    /\ page = NoPage
    /\ route = NoRoute

RepairFrame ==
    UNCHANGED <<options, debugDir, baseGeom, originalGridResult, gridResult,
                cornerCuttingRadius, subparts, geometries, merged, err, artifacts,
                argv, cli, context, diagnostic, reassembly, page, route>>

\* fixNonManifoldGeometry: "output.deleteAttribute('normal')" and
\* "1. Merge vertices that are very close to each other"
Weld ==
    /\ pc = "fix"
    /\ verticesLengthBegin' = VerticesLength(output)
    /\ stepInput' = output
    /\ output' = mergeVertices([output EXCEPT !.normal = FALSE], MERGE_VERTICES_TOLERANCE)
    /\ pc' = "welded"
    /\ UNCHANGED <<fixed, refixed>>
    /\ RepairFrame

DedupFaces_CullFirst ==
    /\ pc = "welded"
    /\ stepInput' = output
    /\ output' = removeDegenerateTriangles(output)
    /\ pc' = "deduped"
    /\ UNCHANGED <<fixed, refixed, verticesLengthBegin>>
    /\ RepairFrame

\* fixNonManifoldGeometry: "2. Remove duplicate faces"
DedupFaces ==
    /\ pc = "welded"
    /\ stepInput' = output
    /\ output' = removeDuplicateFaces(output)
    /\ pc' = "deduped"
    /\ UNCHANGED <<fixed, refixed, verticesLengthBegin>>
    /\ RepairFrame

\* fixNonManifoldGeometry: "Remove any degenerate triangles"
CullDegenerate ==
    /\ pc = "deduped"
    /\ stepInput' = output
    /\ output' = removeDegenerateTriangles(output)
    /\ pc' = "culled"
    /\ UNCHANGED <<fixed, refixed, verticesLengthBegin>>
    /\ RepairFrame

Reweld_ExitOnChange ==
    /\ pc = "culled"
    /\ stepInput' = output
    /\ output' = [mergeVertices(output, MERGE_VERTICES_TOLERANCE) EXCEPT !.normal = TRUE]
    /\ pc' = IF VerticesLength(output') # verticesLengthBegin THEN "return" ELSE "fix"
    /\ UNCHANGED <<fixed, refixed, verticesLengthBegin>>
    /\ RepairFrame

\* fixNonManifoldGeometry: the second mergeVertices, computeVertexNormals and
\* the test that ends the loop
Reweld ==
    /\ pc = "culled"
    /\ stepInput' = output
    /\ output' = [mergeVertices(output, MERGE_VERTICES_TOLERANCE) EXCEPT !.normal = TRUE]
    /\ pc' = IF VerticesLength(output') = verticesLengthBegin THEN "return" ELSE "fix"
    /\ UNCHANGED <<fixed, refixed, verticesLengthBegin>>
    /\ RepairFrame

\* fixNonManifoldGeometry: "return geometry"
FixReturn ==
    /\ pc = "return"
    /\ fixed' = fixNonManifoldGeometry(merged)
    /\ pc' = "fixed"
    /\ UNCHANGED <<refixed, output, stepInput, verticesLengthBegin>>
    /\ RepairFrame

\* fixNonManifoldGeometry applied to its own result
RepairAgain ==
    /\ pc = "fixed"
    /\ refixed' = fixNonManifoldGeometry(fixed)
    /\ pc' = "refixed"
    /\ UNCHANGED <<fixed, output, stepInput, verticesLengthBegin>>
    /\ RepairFrame

\* validateGeometry(fixed, 'reassemble output'): the argument
\* "hasNonManifoldEdges: hasNonManifoldEdges(geometry)" of its debugLog call
Diagnose ==
    /\ pc = "fixed"
    /\ diagnostic = None
    /\ diagnostic' = Some(hasNonManifoldEdges(fixed))
    /\ UNCHANGED <<pc, options, debugDir, baseGeom, originalGridResult, gridResult,
                   cornerCuttingRadius, subparts, geometries, merged, fixed, refixed,
                   err, artifacts, output, stepInput, verticesLengthBegin, argv, cli,
                   context, reassembly, page, route>>

\* removeDuplicateFaces applied to the mesh as it is
DedupOnly ==
    /\ pc = "fix"
    /\ stepInput = NoMesh
    /\ stepInput' = merged
    /\ output' = removeDuplicateFaces(merged)
    /\ pc' = "dedupOnly"
    /\ UNCHANGED <<fixed, refixed, verticesLengthBegin>>
    /\ RepairFrame

NextRepair ==
    \/ Weld \/ DedupFaces \/ CullDegenerate \/ Reweld \/ FixReturn \/ RepairAgain
    \/ DedupOnly \/ Diagnose

SpecRepair == InitRepair /\ [][NextRepair]_vars

\* the step-by-step loop ends with the mesh RepairLoop computes
LoopAgrees == pc = "return" => output = RepairLoop(merged)

\* the body of fixNonManifoldGeometry is synchronous code: a step that can be
\* taken is taken
RepairFairness == WF_vars(Weld \/ DedupFaces \/ CullDegenerate \/ Reweld \/ FixReturn)

SpecRepairFair == InitRepair /\ [][NextRepair]_vars /\ RepairFairness

(***************************************************************************)
(* The command line: commander hands the -g and the -o argument to         *)
(* parseGridSize while it parses process.argv, then main(opts) is called.  *)
(* An argument is a sequence of characters.                                *)
(***************************************************************************)
DigitChars == <<"0", "1", "2", "3", "4", "5", "6", "7", "8", "9">>

IsDigit(c) == \E k \in 1..Len(DigitChars) : DigitChars[k] = c

DigitValue(c) == (CHOOSE k \in 1..Len(DigitChars) : DigitChars[k] = c) - 1

\* String.prototype.split with a one-character separator
RECURSIVE Split(_, _, _, _)
Split(str, sep, k, token) ==
    IF k > Len(str) THEN <<token>>
    ELSE IF str[k] = sep THEN <<token>> \o Split(str, sep, k + 1, <<>>)
    ELSE Split(str, sep, k + 1, Append(token, str[k]))

\* values of JavaScript: a number num / den, NaN or undefined
Num(num, den) == [kind |-> "number", num |-> num, den |-> den]
NaN == [kind |-> "NaN", num |-> 0, den |-> 1]
Undefined == [kind |-> "undefined", num |-> 0, den |-> 1]

\* the digits of a decimal literal read from position k on: <<value, count>>
RECURSIVE ReadDigits(_, _, _, _)
ReadDigits(token, k, value, count) ==
    IF k > Len(token) \/ ~IsDigit(token[k]) THEN <<value, count>>
    ELSE ReadDigits(token, k + 1, value * 10 + DigitValue(token[k]), count + 1)

RECURSIVE PowerOfTen(_)
PowerOfTen(e) == IF e = 0 THEN 1 ELSE 10 * PowerOfTen(e - 1)

\* Number(token): the empty string is 0, a decimal literal with an optional
\* sign and an optional fraction is its value, anything else is NaN
Number(token) ==
    IF Len(token) = 0 THEN Num(0, 1)
    ELSE LET negative == token[1] = "-"
             start == IF negative THEN 2 ELSE 1
             whole == ReadDigits(token, start, 0, 0)
             afterWhole == start + whole[2]
             hasDot == afterWhole <= Len(token) /\ token[afterWhole] = "."
             frac == IF hasDot THEN ReadDigits(token, afterWhole + 1, 0, 0)
                     ELSE <<0, 0>>
             end == afterWhole + (IF hasDot THEN 1 + frac[2] ELSE 0)
             magnitude == whole[1] * PowerOfTen(frac[2]) + frac[1]
         IN IF end = Len(token) + 1 /\ whole[2] + frac[2] > 0
            THEN Num(IF negative THEN 0 - magnitude ELSE magnitude, PowerOfTen(frac[2]))
            ELSE NaN

\* v < k of JavaScript: false when v is NaN or undefined
LessThan(v, k) == v.kind = "number" /\ v.num < k * v.den

\* "const [n, m] = input.split('x').map(Number)"
GridSizeOf(input) ==
    LET tokens == Split(input, "x", 1, <<>>)
    IN <<Number(tokens[1]), IF Len(tokens) >= 2 THEN Number(tokens[2]) ELSE Undefined>>

ErrParse == "Invalid grid size. Expected format: NxM, where N and M are positive integers."

\* "if (n < 1 || m < 1)" of parseGridSize
GridSizeRejected(nm) == LessThan(nm[1], 1) \/ LessThan(nm[2], 1)

\* parseGridSize: the pair it returns, or None when it throws
parseGridSize(input) ==
    LET nm == GridSizeOf(input)
    IN IF GridSizeRejected(nm) THEN None ELSE Some(nm)

\* the -g and -o arguments the command line is tried with
GridArgs ==
    {<<"2", "x", "2">>, <<"4", "x", "2">>, <<"1", "x", "3">>, <<"0", "x", "2">>,
     <<"2", "x", "0">>, <<"a", "b", "c">>, <<"4">>, <<"4", "x">>, <<"x", "4">>, <<>>,
     <<"2", ".", "5", "x", "3">>, <<"-", "1", "x", "2">>, <<"2", "x", "3", "x", "4">>,
     <<"a", "x", "2">>, <<"1", "0", "x", "2">>}

NoOpts == [inputGrids |-> None, outputGrids |-> None]

InitCli ==
    /\ pc = "parseInputGrids"
    /\ argv \in [inputGrids : GridArgs, outputGrids : GridArgs]
    /\ options = NoOpts
    /\ cli = NoCli
    /\ context = ""
    /\ diagnostic = None
    /\ reassembly = NoReassembly
    /\ page = NoPage
    /\ route = NoRoute
    /\ err = ""
    /\ debugDir = FALSE
    /\ baseGeom = NoGeom
    /\ originalGridResult = NoGridResult
    /\ gridResult = NoGridResult
    /\ cornerCuttingRadius = 0
    /\ subparts = NoSubparts
    /\ geometries = <<>>
    /\ merged = NoMesh
    /\ fixed = NoMesh
    /\ refixed = NoMesh
    /\ artifacts = <<>>
    /\ output = NoMesh
    /\ stepInput = NoMesh
    /\ verticesLengthBegin = 0

CliFrame ==
    UNCHANGED <<debugDir, baseGeom, originalGridResult, gridResult, cornerCuttingRadius,
                subparts, geometries, merged, fixed, refixed, artifacts, output,
                stepInput, verticesLengthBegin, argv, context, diagnostic, reassembly, page, route>>

\* an exception thrown while program.parse runs ends the process with status 1
ParseThrows ==
    /\ err' = ErrParse
    /\ cli' = [cli EXCEPT !.exitCode = Some(1), !.printed = <<ErrParse>>]
    /\ pc' = "exited"
    /\ UNCHANGED options

\* .requiredOption('-g, --input-grids <NxM>', ..., parseGridSize)
ParseInputGrids ==
    /\ pc = "parseInputGrids"
    /\ LET r == parseGridSize(argv.inputGrids)
       IN IF IsDefined(r)
          THEN /\ options' = [options EXCEPT !.inputGrids = r]
               /\ pc' = "parseOutputGrids"
               /\ UNCHANGED <<err, cli>>
          ELSE ParseThrows
    /\ CliFrame

\* .requiredOption('-o, --output-grids <NxM>', ..., parseGridSize)
ParseOutputGrids ==
    /\ pc = "parseOutputGrids"
    /\ LET r == parseGridSize(argv.outputGrids)
       IN IF IsDefined(r)
          THEN /\ options' = [options EXCEPT !.outputGrids = r]
               /\ pc' = "callMain"
               /\ UNCHANGED <<err, cli>>
          ELSE ParseThrows
    /\ CliFrame

\* "main(opts)": the pipeline is started with the parsed options
CallMain ==
    /\ pc = "callMain"
    /\ pc' = "main"
    /\ UNCHANGED <<options, err, cli>>
    /\ CliFrame

NextCli == ParseInputGrids \/ ParseOutputGrids \/ CallMain

SpecCli == InitCli /\ [][NextCli]_vars

(***************************************************************************)
(* validateGeometry on a position buffer of floating-point values: a       *)
(* coordinate is a number, NaN, Infinity or -Infinity.  A position buffer  *)
(* is a Float32Array, so sums and squares of its finite values are finite. *)
(***************************************************************************)
MaxVerts == 2

Infinity(sign) == [kind |-> "Infinity", num |-> sign, den |-> 1]

isNaN(v) == v.kind = "NaN"

\* a + b
FAdd(a, b) ==
    IF isNaN(a) \/ isNaN(b) THEN NaN
    ELSE IF a.kind = "Infinity" /\ b.kind = "Infinity"
         THEN (IF a.num = b.num THEN a ELSE NaN)
    ELSE IF a.kind = "Infinity" THEN a
    ELSE IF b.kind = "Infinity" THEN b
    ELSE Num(a.num + b.num, 1)

\* a - b
FSub(a, b) == FAdd(a, [b EXCEPT !.num = 0 - b.num])

\* a * a
FSquare(a) ==
    IF isNaN(a) THEN NaN
    ELSE IF a.kind = "Infinity" THEN Infinity(1)
    ELSE Num(a.num * a.num, 1)

\* a < b, false when either is NaN
FLess(a, b) ==
    /\ ~isNaN(a) /\ ~isNaN(b)
    /\ IF a.kind = "Infinity" THEN a.num < 0 /\ ~(b.kind = "Infinity" /\ b.num < 0)
       ELSE IF b.kind = "Infinity" THEN b.num > 0
       ELSE a.num < b.num

\* Math.min and Math.max: NaN when either is NaN
FMin(a, b) == IF isNaN(a) \/ isNaN(b) THEN NaN ELSE IF FLess(b, a) THEN b ELSE a
FMax(a, b) == IF isNaN(a) \/ isNaN(b) THEN NaN ELSE IF FLess(a, b) THEN b ELSE a

\* Box3.setFromBufferAttribute: makeEmpty, then expandByPoint for every vertex
RECURSIVE ExpandBox(_, _, _)
ExpandBox(position, k, box) ==
    IF k > Len(position) THEN box
    ELSE ExpandBox(position, k + 1,
             [min |-> [c \in 1..3 |-> FMin(box.min[c], position[k][c])],
              max |-> [c \in 1..3 |-> FMax(box.max[c], position[k][c])]])

EmptyBox == [min |-> [c \in 1..3 |-> Infinity(1)], max |-> [c \in 1..3 |-> Infinity(-1)]]

\* twice the centre of the box: Box3.getCenter is (0, 0, 0) for an empty box
\* and (min + max) * 0.5 otherwise
TwiceCenter(box) ==
    IF \E c \in 1..3 : FLess(box.max[c], box.min[c]) THEN [c \in 1..3 |-> Num(0, 1)]
    ELSE [c \in 1..3 |-> FAdd(box.min[c], box.max[c])]

\* four times center.distanceToSquared(vertex)
DistanceSq4(center2, v) ==
    LET d == [c \in 1..3 |-> FSquare(FSub(FAdd(v[c], v[c]), center2[c]))]
    IN FAdd(FAdd(d[1], d[2]), d[3])

RECURSIVE MaxRadiusSq4(_, _, _, _)
MaxRadiusSq4(position, center2, k, acc) ==
    IF k > Len(position) THEN acc
    ELSE MaxRadiusSq4(position, center2, k + 1,
                      FMax(acc, DistanceSq4(center2, position[k])))

\* BufferGeometry.computeBoundingSphere: four times the square of the radius
\* it stores; the radius is its square root, NaN or infinite exactly when
\* this value is
boundingSphereRadiusSq4(position) ==
    MaxRadiusSq4(position, TwiceCenter(ExpandBox(position, 1, EmptyBox)), 1, Num(0, 1))

\* index into the flat position array of its first NaN, or None
FirstNaN(position) ==
    LET flat == Flatten(position)
        hits == {i \in 1..Len(flat) : isNaN(flat[i])}
    IN IF hits = {} THEN None
       ELSE Some((CHOOSE i \in hits : \A j \in hits : i <= j) - 1)

validateGeometry_NaNOnly(geometry, ctx) ==
    IF ~IsDefined(geometry.position)
    THEN ctx \o ": Geometry has no position attribute"
    ELSE IF IsDefined(FirstNaN(Value(geometry.position)))
    THEN ctx \o ": Found NaN in position array at index "
             \o ToString(Value(FirstNaN(Value(geometry.position))))
    ELSE ""

\* validateGeometry: the message of the Error it throws, "" when it returns
validateGeometry(geometry, ctx) ==
    IF ~IsDefined(geometry.position)
    THEN ctx \o ": Geometry has no position attribute"
    ELSE IF IsDefined(FirstNaN(Value(geometry.position)))
    THEN ctx \o ": Found NaN in position array at index "
             \o ToString(Value(FirstNaN(Value(geometry.position))))
    ELSE IF isNaN(boundingSphereRadiusSq4(Value(geometry.position)))
    THEN ctx \o ": Invalid bounding sphere"
    ELSE ""

\* the context strings of the calls of validateGeometry
Checkpoints ==
    {"cutToGrid input", "cutToGrid output", "cutToGrid scaled output", "cutToParts input",
     "reassemble output"}
    \cup {"cutToParts " \o PartNames[k] : k \in 1..Len(PartNames)}
    \cup {"reassemble input " \o PartNames[k] : k \in 1..Len(PartNames)}

\* vertices a validated buffer is made of
SampleVertices ==
    {<<Num(0, 1), Num(0, 1), Num(0, 1)>>,
     <<Num(3, 1), Num(-4, 1), Num(12, 1)>>,
     <<NaN, Num(0, 1), Num(0, 1)>>,
     <<Num(1, 1), Num(2, 1), NaN>>,
     <<Infinity(1), Num(0, 1), Num(0, 1)>>,
     <<Num(0, 1), Infinity(-1), Num(5, 1)>>,
     <<Infinity(1), Infinity(1), Infinity(1)>>,
     <<Infinity(-1), Num(0, 1), Infinity(1)>>}

ValidatedGeometries ==
    {[position |-> None]}
    \cup {[position |-> Some(q)] : q \in SeqsUpTo(SampleVertices, MaxVerts)}

InitValidate ==
    /\ pc = "validateGeometry"
    /\ context \in Checkpoints
    /\ diagnostic = None
    /\ reassembly = NoReassembly
    /\ page = NoPage
    /\ route = NoRoute
    /\ stepInput \in ValidatedGeometries
    /\ err = ""
    /\ argv = NoArgv
    /\ cli = NoCli
    /\ options = NoOpts
    /\ debugDir = FALSE
    /\ baseGeom = NoGeom
    /\ originalGridResult = NoGridResult
    /\ gridResult = NoGridResult
    /\ cornerCuttingRadius = 0
    /\ subparts = NoSubparts
    /\ geometries = <<>>
    /\ merged = NoMesh
    /\ fixed = NoMesh
    /\ refixed = NoMesh
    /\ artifacts = <<>>
    /\ output = NoMesh
    /\ verticesLengthBegin = 0

\* one call validateGeometry(geometry, context)
ValidateGeometry ==
    /\ pc = "validateGeometry"
    /\ err' = validateGeometry(stepInput, context)
    /\ pc' = IF err' = "" THEN "validated" ELSE "thrown"
    /\ UNCHANGED <<options, debugDir, baseGeom, originalGridResult, gridResult,
                   cornerCuttingRadius, subparts, geometries, merged, fixed, refixed,
                   artifacts, output, stepInput, verticesLengthBegin, argv, cli, context, diagnostic, reassembly, page, route>>

NextValidate == ValidateGeometry

SpecValidate == InitValidate /\ [][NextValidate]_vars

(***************************************************************************)
(* reassemble statement by statement, on objects with identity: a          *)
(* BufferGeometry is an object of the heap, a local name or an entry of    *)
(* `geometries` is a reference to it, clone() makes a new object and every *)
(* transformation writes the object it is called on.  The buffers of an    *)
(* object are modelled by the subpart they were copied from and the        *)
(* sequence of transformations written to them since.                      *)
(***************************************************************************)
\* a statement of reassemble
Sub(name) == <<"subparts", name>>
Loc(name) == <<"local", name>>
ConstClone(dst, src) == [op |-> "const", dst |-> dst, src |-> src, clone |-> TRUE]
ConstSame(dst, src) == [op |-> "const", dst |-> dst, src |-> src, clone |-> FALSE]
Call(f, target) == [op |-> f, dst |-> target, src |-> Loc(target), clone |-> FALSE]
PushTo(target) == [op |-> "push", dst |-> target, src |-> Loc(target), clone |-> FALSE]
Validate(part) == [op |-> "validateGeometry", dst |-> part, src |-> Sub(part), clone |-> FALSE]

\* the calls that write the position buffer of their argument
Transformations ==
    {"rotateZWithTrim", "flipGeometryWithTrim", "rotateZ",
     "trimBufferGeometryToOrigin", "scale", "translate"}

\* "Object.entries(subparts).forEach(... validateGeometry(geometry, ...))"
ValidateInputs == [k \in 1..Len(PartNames) |-> Validate(PartNames[k])]

\* one pass of "for (let i = 0; i < 4; i++)"
OuterCornerStatements ==
    <<ConstClone("bottomCorner2W", Sub("bottomCorner2W")),
      Call("rotateZWithTrim", "bottomCorner2W"),
      ConstClone("topCorner2W", Sub("topCorner2W")),
      Call("rotateZWithTrim", "topCorner2W"),
      ConstClone("sideEdge2W", Sub("sideEdge2W")),
      Call("scale", "sideEdge2W"),
      Call("rotateZWithTrim", "sideEdge2W"),
      Call("translate", "bottomCorner2W"),
      Call("translate", "topCorner2W"),
      Call("translate", "sideEdge2W"),
      PushTo("bottomCorner2W"),
      PushTo("topCorner2W"),
      PushTo("sideEdge2W")>>

\* pass j of "for (let j = 0; j < xIterations; j++)"
NearFarStatements(j) ==
    <<ConstClone("sideBottomEdge", Sub("sideBottomEdges")),
      ConstClone("sideBottomEdgeFar", Loc("sideBottomEdge")),
      Call("rotateZWithTrim", "sideBottomEdgeFar"),
      Call("translate", "sideBottomEdge"),
      PushTo("sideBottomEdge"),
      Call("translate", "sideBottomEdgeFar"),
      PushTo("sideBottomEdgeFar"),
      ConstClone("corner1WNearLeft", Sub("bottomCorner1WRightNear")),
      ConstClone("corner1WNearRight", Loc("corner1WNearLeft")),
      Call("flipGeometryWithTrim", "corner1WNearRight"),
      ConstClone("corner1WFarLeft", Loc("corner1WNearRight")),
      Call("rotateZWithTrim", "corner1WFarLeft"),
      ConstClone("corner1WFarRight", Loc("corner1WNearLeft")),
      Call("rotateZWithTrim", "corner1WFarRight")>>
    \o (IF NearFarCornerGuard(j)
        THEN <<Call("translate", "corner1WNearLeft"),
               Call("translate", "corner1WNearRight"),
               PushTo("corner1WNearLeft"),
               PushTo("corner1WNearRight"),
               Call("translate", "corner1WFarLeft"),
               Call("translate", "corner1WFarRight"),
               PushTo("corner1WFarLeft"),
               PushTo("corner1WFarRight")>>
        ELSE <<>>)

\* pass j of "for (let j = 0; j < yIterations; j++)"
LeftRightStatements(j) ==
    <<ConstClone("sideBottomLeftEdge", Sub("sideBottomEdges")),
      Call("rotateZWithTrim", "sideBottomLeftEdge"),
      ConstClone("sideBottomRightEdge", Loc("sideBottomLeftEdge")),
      Call("rotateZWithTrim", "sideBottomRightEdge"),
      Call("translate", "sideBottomLeftEdge"),
      PushTo("sideBottomLeftEdge"),
      Call("translate", "sideBottomRightEdge"),
      PushTo("sideBottomRightEdge"),
      ConstClone("cornerLeft1WNear", Sub("bottomCorner1WLeftFar")),
      ConstClone("cornerLeft1WFar", Loc("cornerLeft1WNear")),
      Call("flipGeometryWithTrim", "cornerLeft1WFar"),
      ConstClone("cornerRight1WNear", Loc("cornerLeft1WFar")),
      Call("rotateZ", "cornerRight1WNear"),
      Call("trimBufferGeometryToOrigin", "cornerRight1WNear"),
      ConstClone("cornerRight1WFar", Loc("cornerLeft1WNear")),
      Call("rotateZ", "cornerRight1WFar"),
      Call("trimBufferGeometryToOrigin", "cornerRight1WFar")>>
    \o (IF LeftRightCornerGuard(j)
        THEN <<Call("translate", "cornerLeft1WNear"),
               Call("translate", "cornerLeft1WFar"),
               PushTo("cornerLeft1WNear"),
               PushTo("cornerLeft1WFar"),
               Call("translate", "cornerRight1WNear"),
               Call("translate", "cornerRight1WFar"),
               PushTo("cornerRight1WNear"),
               PushTo("cornerRight1WFar")>>
        ELSE <<>>)

\* the body of "for (let x ...) for (let y ...)"
InteriorStatements(x, y) ==
    <<ConstClone("bottomFloor", Sub("bottomFloor")),
      Call("translate", "bottomFloor"),
      PushTo("bottomFloor")>>
    \o (IF SeamAcrossYGuard(y)
        THEN <<ConstClone("bottomEdge0WLeftNear", Sub("bottomEdge0W")),
               Call("rotateZWithTrim", "bottomEdge0WLeftNear"),
               ConstClone("bottomEdge0WLeftFar", Sub("bottomEdge0W")),
               Call("rotateZWithTrim", "bottomEdge0WLeftFar"),
               Call("translate", "bottomEdge0WLeftFar"),
               Call("translate", "bottomEdge0WLeftNear"),
               PushTo("bottomEdge0WLeftNear"),
               PushTo("bottomEdge0WLeftFar")>>
        ELSE <<>>)
    \o (IF SeamAcrossXGuard(x)
        THEN <<ConstClone("bottomEdge0WNearLeft", Sub("bottomEdge0W")),
               ConstClone("bottomEdge0WNearRight", Loc("bottomEdge0WNearLeft")),
               Call("rotateZWithTrim", "bottomEdge0WNearRight"),
               Call("translate", "bottomEdge0WNearLeft"),
               Call("translate", "bottomEdge0WNearRight"),
               PushTo("bottomEdge0WNearLeft"),
               PushTo("bottomEdge0WNearRight")>>
        ELSE <<>>)
    \o (IF Corner0WGuard(x, y)
        THEN <<ConstClone("bottomCorner0WLeftNear", Sub("bottomCorner0W")),
               ConstClone("bottomCorner0WLeftFar", Loc("bottomCorner0WLeftNear")),
               Call("rotateZWithTrim", "bottomCorner0WLeftFar"),
               ConstClone("bottomCorner0WRightFar", Loc("bottomCorner0WLeftNear")),
               Call("rotateZWithTrim", "bottomCorner0WRightFar"),
               ConstClone("bottomCorner0WRightNear", Loc("bottomCorner0WLeftNear")),
               Call("rotateZWithTrim", "bottomCorner0WRightNear"),
               Call("translate", "bottomCorner0WLeftNear"),
               Call("translate", "bottomCorner0WLeftFar"),
               Call("translate", "bottomCorner0WRightFar"),
               Call("translate", "bottomCorner0WRightNear"),
               PushTo("bottomCorner0WLeftNear"),
               PushTo("bottomCorner0WLeftFar"),
               PushTo("bottomCorner0WRightFar"),
               PushTo("bottomCorner0WRightNear")>>
        ELSE <<>>)

SideWallStatements_FarWallNotCloned ==
    <<ConstClone("nearSideWall", Sub("sideWall")),
      Call("scale", "nearSideWall"),
      Call("trimBufferGeometryToOrigin", "nearSideWall"),
      Call("translate", "nearSideWall"),
      PushTo("nearSideWall"),
      ConstSame("farSideWall", Loc("nearSideWall")),
      Call("rotateZWithTrim", "farSideWall"),
      Call("translate", "farSideWall"),
      PushTo("farSideWall"),
      ConstClone("nearSideTopEdge", Sub("sideTopEdges")),
      Call("scale", "nearSideTopEdge"),
      Call("trimBufferGeometryToOrigin", "nearSideTopEdge"),
      Call("translate", "nearSideTopEdge"),
      PushTo("nearSideTopEdge"),
      ConstClone("farSideTopEdge", Loc("nearSideTopEdge")),
      Call("rotateZWithTrim", "farSideTopEdge"),
      Call("translate", "farSideTopEdge"),
      PushTo("farSideTopEdge"),
      ConstClone("leftSideWall", Sub("sideWall")),
      Call("rotateZWithTrim", "leftSideWall"),
      Call("scale", "leftSideWall"),
      Call("trimBufferGeometryToOrigin", "leftSideWall"),
      Call("translate", "leftSideWall"),
      PushTo("leftSideWall"),
      ConstClone("rightSideWall", Loc("leftSideWall")),
      Call("rotateZWithTrim", "rightSideWall"),
      Call("translate", "rightSideWall"),
      PushTo("rightSideWall"),
      ConstClone("leftSideTopEdge", Sub("sideTopEdges")),
      Call("rotateZWithTrim", "leftSideTopEdge"),
      Call("scale", "leftSideTopEdge"),
      Call("trimBufferGeometryToOrigin", "leftSideTopEdge"),
      Call("translate", "leftSideTopEdge"),
      PushTo("leftSideTopEdge"),
      ConstClone("rightSideTopEdge", Loc("leftSideTopEdge")),
      Call("rotateZWithTrim", "rightSideTopEdge"),
      Call("translate", "rightSideTopEdge"),
      PushTo("rightSideTopEdge")>>

\* "fill the side walls": the four walls and the four top edges
SideWallStatements ==
    <<ConstClone("nearSideWall", Sub("sideWall")),
      Call("scale", "nearSideWall"),
      Call("trimBufferGeometryToOrigin", "nearSideWall"),
      Call("translate", "nearSideWall"),
      PushTo("nearSideWall"),
      ConstClone("farSideWall", Loc("nearSideWall")),
      Call("rotateZWithTrim", "farSideWall"),
      Call("translate", "farSideWall"),
      PushTo("farSideWall"),
      ConstClone("nearSideTopEdge", Sub("sideTopEdges")),
      Call("scale", "nearSideTopEdge"),
      Call("trimBufferGeometryToOrigin", "nearSideTopEdge"),
      Call("translate", "nearSideTopEdge"),
      PushTo("nearSideTopEdge"),
      ConstClone("farSideTopEdge", Loc("nearSideTopEdge")),
      Call("rotateZWithTrim", "farSideTopEdge"),
      Call("translate", "farSideTopEdge"),
      PushTo("farSideTopEdge"),
      ConstClone("leftSideWall", Sub("sideWall")),
      Call("rotateZWithTrim", "leftSideWall"),
      Call("scale", "leftSideWall"),
      Call("trimBufferGeometryToOrigin", "leftSideWall"),
      Call("translate", "leftSideWall"),
      PushTo("leftSideWall"),
      ConstClone("rightSideWall", Loc("leftSideWall")),
      Call("rotateZWithTrim", "rightSideWall"),
      Call("translate", "rightSideWall"),
      PushTo("rightSideWall"),
      ConstClone("leftSideTopEdge", Sub("sideTopEdges")),
      Call("rotateZWithTrim", "leftSideTopEdge"),
      Call("scale", "leftSideTopEdge"),
      Call("trimBufferGeometryToOrigin", "leftSideTopEdge"),
      Call("translate", "leftSideTopEdge"),
      PushTo("leftSideTopEdge"),
      ConstClone("rightSideTopEdge", Loc("leftSideTopEdge")),
      Call("rotateZWithTrim", "rightSideTopEdge"),
      Call("translate", "rightSideTopEdge"),
      PushTo("rightSideTopEdge")>>

\* the statements reassemble executes, in order, up to the last push
Statements(rows, cols) ==
    ValidateInputs
    \o Flatten([i \in 1..4 |-> OuterCornerStatements])
    \o Flatten([j \in 1..cols |-> NearFarStatements(j - 1)])
    \o Flatten([j \in 1..rows |-> LeftRightStatements(j - 1)])
    \o Flatten([x \in 1..cols |->
            Flatten([y \in 1..rows |-> InteriorStatements(x - 1, y - 1)])])
    \o SideWallStatements

\* the statement reassemble is at
Statement ==
    Statements(reassembly.rows, reassembly.cols)[reassembly.ip]

Running ==
    /\ reassembly.ip >= 1
    /\ reassembly.ip <= Len(Statements(reassembly.rows, reassembly.cols))

\* the object a statement names
Deref(src) ==
    IF src[1] = "subparts"
    THEN CHOOSE k \in 1..Len(PartNames) : PartNames[k] = src[2]
    ELSE reassembly.locals[src[2]]

\* the buffers of the subparts as cutToParts returned them
FreshPart(k) == [from |-> PartNames[k], written |-> <<>>]

InitAlias ==
    /\ pc = "reassemble"
    /\ \E g \in OutputGridChoices :
        reassembly = [rows |-> g[1], cols |-> g[2], ip |-> 1,
                      heap |-> [k \in 1..Len(PartNames) |-> FreshPart(k)],
                      locals |-> <<>>, pushed |-> <<>>]
    /\ options = CHOOSE o \in OptionSets : TRUE
    /\ debugDir = FALSE
    /\ baseGeom = NoGeom
    /\ originalGridResult = NoGridResult
    /\ gridResult = NoGridResult
    /\ cornerCuttingRadius = 0
    /\ subparts = NoSubparts
    /\ geometries = <<>>
    /\ merged = NoMesh
    /\ fixed = NoMesh
    /\ refixed = NoMesh
    /\ err = ""
    /\ artifacts = <<>>
    /\ output = NoMesh
    /\ stepInput = NoMesh
    /\ verticesLengthBegin = 0
    /\ argv = NoArgv
    /\ cli = NoCli
    /\ context = ""
    /\ diagnostic = None
    /\ page = NoPage
    /\ route = NoRoute

AliasFrame ==
    UNCHANGED <<pc, options, debugDir, baseGeom, originalGridResult, gridResult,
                cornerCuttingRadius, subparts, geometries, merged, fixed, refixed,
                err, artifacts, output, stepInput, verticesLengthBegin, argv, cli,
                context, diagnostic, page, route>>

Bind(locals, name, ref) ==
    [n \in (DOMAIN locals) \cup {name} |-> IF n = name THEN ref ELSE locals[n]]

\* "const dst = src.clone()": a new object with a copy of the buffers of src
\* (ConstSame, "const dst = src", makes dst another name of the object)
ConstStatement ==
    /\ Running
    /\ Statement.op = "const"
    /\ LET ref == Deref(Statement.src) IN
        reassembly' =
            IF Statement.clone
            THEN [reassembly EXCEPT
                    !.heap = Append(@, reassembly.heap[ref]),
                    !.locals = Bind(@, Statement.dst, Len(reassembly.heap) + 1),
                    !.ip = @ + 1]
            ELSE [reassembly EXCEPT
                    !.locals = Bind(@, Statement.dst, ref),
                    !.ip = @ + 1]
    /\ AliasFrame

\* rotateZ, scale, translate, rotateZWithTrim, flipGeometryWithTrim and
\* trimBufferGeometryToOrigin write the position buffer of their argument
TransformStatement ==
    /\ Running
    /\ Statement.op \in Transformations
    /\ LET ref == Deref(Statement.src) IN
        reassembly' = [reassembly EXCEPT
            !.heap[ref].written = Append(@, Statement.op),
            !.ip = @ + 1]
    /\ AliasFrame

\* "geometries.push(piece)": the list holds the object, not a copy; `was`
\* records the buffers it had when it was pushed
PushStatement ==
    /\ Running
    /\ Statement.op = "push"
    /\ LET ref == Deref(Statement.src) IN
        reassembly' = [reassembly EXCEPT
            !.pushed = Append(@, [ref |-> ref, was |-> reassembly.heap[ref]]),
            !.ip = @ + 1]
    /\ AliasFrame

\* validateGeometry(subpart): clearGroups, computeBoundingBox and
\* computeBoundingSphere write neither the position nor the index buffer
ValidateStatement ==
    /\ Running
    /\ Statement.op = "validateGeometry"
    /\ reassembly' = [reassembly EXCEPT !.ip = @ + 1]
    /\ AliasFrame

NextAlias == ConstStatement \/ TransformStatement \/ PushStatement \/ ValidateStatement

SpecAlias == InitAlias /\ [][NextAlias]_vars

(***************************************************************************)
(* The web page Home (src/web/app/page.tsx): its React state, the handlers *)
(* of its controls and the call of handleGenerateModel under way.  A       *)
(* handler works on the state of the render it was created in, and the     *)
(* page is rendered again after every handler and every settled promise.   *)
(***************************************************************************)
\* the files the user can choose in the file dialog
UploadFiles == {"a.stl", "b.stl"}

\* how many of the parameters differ from their initial values at a time
MaxChangedParams == 1

\* the seven ParameterSlider controls and values each of them can deliver,
\* within its min and max
SliderValues ==
    [inputGridsX |-> {4, 3}, inputGridsY |-> {2, 3}, inputCornerRadius |-> {10, 8},
     outputGridsX |-> {1, 2}, outputGridsY |-> {3, 2}, height |-> {45, 60},
     outputGridSize |-> {42}]

Sliders == DOMAIN SliderValues

\* the updater each onChange hands to setGridifierParams
ParamsUpdater(prev, slider, value) ==
    CASE slider = "inputGridsX" -> [prev EXCEPT !.inputGrids = <<value, prev.inputGrids[2]>>]
      [] slider = "inputGridsY" -> [prev EXCEPT !.inputGrids = <<prev.inputGrids[1], value>>]
      [] slider = "inputCornerRadius" -> [prev EXCEPT !.inputCornerRadius = value]
      [] slider = "outputGridsX" -> [prev EXCEPT !.outputGrids = <<value, prev.outputGrids[2]>>]
      [] slider = "outputGridsY" -> [prev EXCEPT !.outputGrids = <<prev.outputGrids[1], value>>]
      [] slider = "height" -> [prev EXCEPT !.height = value]
      [] slider = "outputGridSize" -> [prev EXCEPT !.outputGridSize = Some(value)]

ChangedParams(params) ==
    Cardinality({f \in DOMAIN params : params[f] # InitialParams[f]})

\* the bytes of a file, and of public/default.stl
FileBytes(file) == <<"bytes of", file>>
DefaultBytes == FileBytes("public/default.stl")

\* "const options = { ... }" of handleGenerateModel
OptionsOf(gridifierParams) ==
    [inputGrids |-> gridifierParams.inputGrids,
     inputCornerRadius |-> gridifierParams.inputCornerRadius,
     height |-> gridifierParams.height,
     outputGrids |-> gridifierParams.outputGrids,
     outputGridSize |-> gridifierParams.outputGridSize,
     dividerThickness |-> gridifierParams.dividerThickness,
     unionAll |-> gridifierParams.unionAll]

\* the STL that Gridifier computes from an input buffer and options, written
\* as what it was computed from
GridifiedSTL(inputBuffer, params) == [base |-> inputBuffer, params |-> params]

\* GridifierAction: the default model is read when no buffer is passed
GridifierAction(inputBuffer, params) ==
    IF ~IsDefined(inputBuffer)
    THEN GridifiedSTL(DefaultBytes, params)
    ELSE GridifiedSTL(Value(inputBuffer), params)

InitPage ==
    /\ pc = "page"
    /\ page = FirstRender
    /\ options = CHOOSE o \in OptionSets : TRUE
    /\ debugDir = FALSE
    /\ baseGeom = NoGeom
    /\ originalGridResult = NoGridResult
    /\ gridResult = NoGridResult
    /\ cornerCuttingRadius = 0
    /\ subparts = NoSubparts
    /\ geometries = <<>>
    /\ merged = NoMesh
    /\ fixed = NoMesh
    /\ refixed = NoMesh
    /\ err = ""
    /\ artifacts = <<>>
    /\ output = NoMesh
    /\ stepInput = NoMesh
    /\ verticesLengthBegin = 0
    /\ argv = NoArgv
    /\ cli = NoCli
    /\ context = ""
    /\ diagnostic = None
    /\ reassembly = NoReassembly
    /\ route = NoRoute

PageFrame ==
    UNCHANGED <<pc, options, debugDir, baseGeom, originalGridResult, gridResult,
                cornerCuttingRadius, subparts, geometries, merged, fixed, refixed,
                err, artifacts, output, stepInput, verticesLengthBegin, argv, cli,
                context, diagnostic, reassembly, route>>

\* handleFileUpload, reached through the upload button, which is disabled
\* while useDefaultModel is set; a dialog closed without a file changes nothing
handleFileUpload ==
    /\ pc = "page"
    /\ ~page.useDefaultModel
    /\ \E file \in UploadFiles :
        page' = [page EXCEPT !.selectedFile = Some(file),
                             !.useDefaultModel = FALSE,
                             !.generatedSTL = None]
    /\ PageFrame

\* onChange of the checkbox "Use Default Model"
UseDefaultChange ==
    /\ pc = "page"
    /\ \E checked \in BOOLEAN :
        /\ checked # page.useDefaultModel
        /\ page' = [page EXCEPT !.useDefaultModel = checked, !.generatedSTL = None]
    /\ PageFrame

\* onChange of a ParameterSlider
SliderChange ==
    /\ pc = "page"
    /\ \E slider \in Sliders :
        \E value \in SliderValues[slider] :
            LET params == ParamsUpdater(page.gridifierParams, slider, value) IN
            /\ ChangedParams(params) <= MaxChangedParams
            /\ page' = [page EXCEPT !.gridifierParams = params, !.generatedSTL = None]
    /\ PageFrame

\* handleGenerateModel up to its first await: the button is disabled while
\* isGenerating; selectedFile and gridifierParams are those of the render
handleGenerateModel ==
    /\ pc = "page"
    /\ ~page.isGenerating
    /\ page.call.at = "idle"
    /\ page' = [page EXCEPT
                  !.isGenerating = TRUE,
                  !.errorMessage = None,
                  !.call = [at |-> IF IsDefined(page.selectedFile)
                                   THEN "arrayBuffer" ELSE "GridifierAction",
                            selectedFile |-> page.selectedFile,
                            gridifierParams |-> page.gridifierParams,
                            inputBuffer |-> None]]
    /\ PageFrame

\* "catch" and "finally" of handleGenerateModel
GenerateFailed(message) ==
    page' = [page EXCEPT !.errorMessage = Some(message),
                         !.isGenerating = FALSE,
                         !.call = NoCall]

\* "await selectedFile.arrayBuffer()" settles; "Buffer.from(arrayBuffer)"
ArrayBufferSettled ==
    /\ pc = "page"
    /\ page.call.at = "arrayBuffer"
    /\ \/ page' = [page EXCEPT
                     !.call.at = "GridifierAction",
                     !.call.inputBuffer = Some(FileBytes(Value(page.call.selectedFile)))]
       \/ GenerateFailed("arrayBuffer failed")
    /\ PageFrame

\* "await GridifierAction(inputBuffer, options)" settles
GridifierActionSettled ==
    /\ pc = "page"
    /\ page.call.at = "GridifierAction"
    /\ \/ page' = [page EXCEPT
                     !.generatedSTL =
                         Some(GridifierAction(page.call.inputBuffer,
                                              OptionsOf(page.call.gridifierParams))),
                     !.isGenerating = FALSE,
                     !.call = NoCall]
       \/ GenerateFailed("Gridifier failed")
    /\ PageFrame

NextPage ==
    \/ handleFileUpload
    \/ UseDefaultChange
    \/ SliderChange
    \/ handleGenerateModel
    \/ ArrayBufferSettled
    \/ GridifierActionSettled

SpecPage == InitPage /\ [][NextPage]_vars

(***************************************************************************)
(* The model download route (src/unnamed/part_000): GET, one call per      *)
(* request, calls of several requests interleaved at their awaits.         *)
(***************************************************************************)
\* requests the server handles at a time
MaxRequests == 2

\* values of the route parameter `model`
ModelNames ==
    {"default", "Default", "default.stl", "../default", "public/default",
     "../../etc/passwd", ""}

\* path.join(process.cwd(), 'public', `${model}.stl`), as its segments
ModelPath(model) == <<"public", model, ".stl">>

\* fs.promises.readFile: the one file under public is public/default.stl
CanRead(path) == route.readable /\ path = ModelPath("default")

IsServed_AnyModel(model) == TRUE

\* "if (model === 'default')"
IsServed(model) == model = "default"

\* new NextResponse(body, { status }) and new NextResponse(body, { headers })
NotFound == [status |-> 404, body |-> Some("Model not found")]
Attachment(fileBuffer) == [status |-> 200, body |-> Some(fileBuffer)]

InitRoute ==
    /\ pc = "route"
    /\ \E readable \in BOOLEAN : route = [requests |-> <<>>, readable |-> readable]
    /\ options = CHOOSE o \in OptionSets : TRUE
    /\ debugDir = FALSE
    /\ baseGeom = NoGeom
    /\ originalGridResult = NoGridResult
    /\ gridResult = NoGridResult
    /\ cornerCuttingRadius = 0
    /\ subparts = NoSubparts
    /\ geometries = <<>>
    /\ merged = NoMesh
    /\ fixed = NoMesh
    /\ refixed = NoMesh
    /\ err = ""
    /\ artifacts = <<>>
    /\ output = NoMesh
    /\ stepInput = NoMesh
    /\ verticesLengthBegin = 0
    /\ argv = NoArgv
    /\ cli = NoCli
    /\ context = ""
    /\ diagnostic = None
    /\ reassembly = NoReassembly
    /\ page = NoPage

RouteFrame ==
    UNCHANGED <<pc, options, debugDir, baseGeom, originalGridResult, gridResult,
                cornerCuttingRadius, subparts, geometries, merged, fixed, refixed,
                err, artifacts, output, stepInput, verticesLengthBegin, argv, cli,
                context, diagnostic, reassembly, page>>

\* a request arrives and GET runs up to "await params"
Request ==
    /\ pc = "route"
    /\ Len(route.requests) < MaxRequests
    /\ \E model \in ModelNames :
        route' = [route EXCEPT !.requests =
                     Append(@, [model |-> model, at |-> "params", read |-> None,
                                response |-> None])]
    /\ RouteFrame

\* GET from "const { model } = await params" to its next await or return
GET ==
    /\ pc = "route"
    /\ \E i \in 1..Len(route.requests) :
        LET request == route.requests[i] IN
        /\ request.at = "params"
        /\ route' = [route EXCEPT !.requests[i] =
                        IF IsServed(request.model)
                        THEN [request EXCEPT !.at = "readFile",
                                             !.read = Some(ModelPath(request.model))]
                        ELSE [request EXCEPT !.at = "returned",
                                             !.response = Some(NotFound)]]
    /\ RouteFrame

\* "await fs.promises.readFile(modelPath)" settles: the response, or the catch
ReadFileSettled ==
    /\ pc = "route"
    /\ \E i \in 1..Len(route.requests) :
        LET request == route.requests[i] IN
        /\ request.at = "readFile"
        /\ route' = [route EXCEPT !.requests[i] =
                        [request EXCEPT
                            !.at = "returned",
                            !.response =
                                IF CanRead(Value(request.read))
                                THEN Some(Attachment(DefaultBytes))
                                ELSE Some(NotFound)]]
    /\ RouteFrame

NextRoute == Request \/ GET \/ ReadFileSettled

SpecRoute == InitRoute /\ [][NextRoute]_vars

(***************************************************************************)
(* Properties of the run of Gridifier.                                     *)
(***************************************************************************)
Reassembled == pc \in {"export", "done"}
CellCut == pc \in {"scale", "cutToParts", "reassemble", "export", "done"}
PartsCut == pc \in {"reassemble", "export", "done"}

\* the placed pieces cut from the given parts
PiecesOf(parts) == SelectSeq(geometries, LAMBDA g : g.part \in parts)
CountOf(parts) == Len(PiecesOf(parts))

RECURSIVE SumSeq(_)
SumSeq(q) == IF Len(q) = 0 THEN 0 ELSE Head(q) + SumSeq(Tail(q))

MinOver(S) == CHOOSE v \in S : \A w \in S : v <= w
MaxOver(S) == CHOOSE v \in S : \A w \in S : v >= w

PieceIndices == 1..Len(geometries)

\* extents of the bounding box of all placed pieces
ExtentX == MaxOver({geometries[k].x1 : k \in PieceIndices})
           - MinOver({geometries[k].x0 : k \in PieceIndices})
ExtentY == MaxOver({geometries[k].y1 : k \in PieceIndices})
           - MinOver({geometries[k].y0 : k \in PieceIndices})
ExtentZ == MaxOver({geometries[k].z1 : k \in PieceIndices})
           - MinOver({geometries[k].z0 : k \in PieceIndices})

\* C1: cutToGrid, reached through Gridifier, throws the grid-size error if
\* n < 2 or m < 2, and does not throw it if n >= 2 and m >= 2.
C1_GridSizeError ==
    [][pc = "cutToGrid" =>
         /\ (N < 2 \/ M < 2) => (err' = ErrGridSize /\ pc' = "failed")
         /\ (N >= 2 /\ M >= 2) => (err' # ErrGridSize /\ pc' # "failed")]_vars

C1_Witness ==
    pc = "failed" /\ err = ErrGridSize /\ N >= 2 /\ M < 2 /\ debugDir

\* C2: with outputGrids = (a, b) the assembled container is a * cellSizeX
\* wide along X, b * cellSizeY deep along Y and `height` high along Z.
C2_ExtentFollowsOutputGrids ==
    (Reassembled /\ Rows >= 1 /\ Cols >= 1) =>
        /\ ExtentX = options.outputGrids[1] * gridResult.sizeX
        /\ ExtentY = options.outputGrids[2] * gridResult.sizeY
        /\ ExtentZ = options.height

\* the pieces of the bottom layer
BottomParts ==
    {"bottomCorner2W", "sideBottomEdges", "bottomCorner1WRightNear",
     "bottomCorner1WLeftFar", "bottomFloor", "bottomEdge0W", "bottomCorner0W"}

FootprintArea(g) == (g.x1 - g.x0) * (g.y1 - g.y0)

FootprintsOverlap(g, h) ==
    /\ g.x0 < h.x1 /\ h.x0 < g.x1
    /\ g.y0 < h.y1 /\ h.y0 < g.y1

\* the footprints of the pieces tile [0, X] x [0, Y]: each lies inside, no
\* two overlap, and their areas add up to X * Y
TilesExactly(pieces, X, Y) ==
    /\ \A k \in 1..Len(pieces) :
          /\ 0 <= pieces[k].x0 /\ pieces[k].x1 <= X
          /\ 0 <= pieces[k].y0 /\ pieces[k].y1 <= Y
    /\ \A k \in 1..Len(pieces) : \A l \in (k + 1)..Len(pieces) :
          ~FootprintsOverlap(pieces[k], pieces[l])
    /\ SumSeq([k \in 1..Len(pieces) |-> FootprintArea(pieces[k])]) = X * Y

\* C3: the bottom-layer pieces cover the container footprint
\* [0, cols * cellSizeX] x [0, rows * cellSizeY] exactly once, also when
\* cellSizeX differs from cellSizeY.
C3_BottomLayerTiles ==
    (Reassembled /\ Rows >= 1 /\ Cols >= 1
     /\ RadiusFits(gridResult.sizeX, gridResult.sizeY, gridResult.sizeZ,
                   cornerCuttingRadius))
    => TilesExactly(PiecesOf(BottomParts), Cols * gridResult.sizeX, Rows * gridResult.sizeY)

InnerBoundaryCorners == {"bottomCorner1WRightNear", "bottomCorner1WLeftFar"}

\* C4 as claimed: reassemble emits 2 * (rows - 1 + cols - 1) 1-wall corner pieces.
C4_TwoPerSeam ==
    (Reassembled /\ Rows >= 1 /\ Cols >= 1) => CountOf(InnerBoundaryCorners) = 2 * (Rows - 1 + Cols - 1)

\* C4 as amended: for rows, cols >= 1 reassemble emits 4 * (rows - 1 + cols - 1)
\* 1-wall corner pieces, two on each side of every seam of each of the four
\* boundaries.
C4_FourPerSeam ==
    (Reassembled /\ Rows >= 1 /\ Cols >= 1)
    => CountOf(InnerBoundaryCorners) = 4 * (Rows - 1 + Cols - 1)

C4_Witness ==
    pc = "done" /\ Rows = 1 /\ Cols = 2 /\ CountOf(InnerBoundaryCorners) = 4

\* the piece is one of the two or four pieces that straddle the seam at index k > 0
AtSeam(lo, size, r, k) == lo = k * size - r \/ lo = k * size

\* C5: for rows, cols >= 1 reassemble emits 4 outer-corner triplets, rows * cols
\* floor panels and 4 * (rows - 1) * (cols - 1) 0-wall corner pieces; every
\* 0-wall corner lies at a junction x > 0, y > 0 and every 0-wall seam edge
\* across a seam of index > 0.
C5_PieceCounts ==
    (Reassembled /\ Rows >= 1 /\ Cols >= 1) =>
        LET sx == gridResult.sizeX
            sy == gridResult.sizeY
            r == cornerCuttingRadius
        IN
        /\ CountOf({"bottomCorner2W"}) = 4
        /\ CountOf({"topCorner2W"}) = 4
        /\ CountOf({"sideEdge2W"}) = 4
        /\ \A i \in 0..3 :
              /\ geometries[3 * i + 1].part = "bottomCorner2W"
              /\ geometries[3 * i + 2].part = "topCorner2W"
              /\ geometries[3 * i + 3].part = "sideEdge2W"
              /\ \A k \in {2, 3} :
                    /\ geometries[3 * i + k].x0 = geometries[3 * i + 1].x0
                    /\ geometries[3 * i + k].y0 = geometries[3 * i + 1].y0
        /\ CountOf({"bottomFloor"}) = Rows * Cols
        /\ CountOf({"bottomCorner0W"}) = 4 * (Rows - 1) * (Cols - 1)
        /\ \A k \in PieceIndices :
              geometries[k].part = "bottomCorner0W" =>
                  \E x \in 1..(Cols - 1), y \in 1..(Rows - 1) :
                      /\ AtSeam(geometries[k].x0, sx, r, x)
                      /\ AtSeam(geometries[k].y0, sy, r, y)
        /\ \A k \in PieceIndices :
              geometries[k].part = "bottomEdge0W" =>
                  \/ \E x \in 1..(Cols - 1), y \in 0..(Rows - 1) :
                        /\ AtSeam(geometries[k].x0, sx, r, x)
                        /\ geometries[k].y0 = y * sy + r
                  \/ \E x \in 0..(Cols - 1), y \in 1..(Rows - 1) :
                        /\ geometries[k].x0 = x * sx + r
                        /\ AtSeam(geometries[k].y0, sy, r, y)

C5_Witness ==
    pc = "done" /\ Rows = 2 /\ Cols = 2 /\ CountOf({"bottomCorner0W"}) = 4
    /\ CountOf({"bottomFloor"}) = 4 /\ CountOf({"bottomEdge0W"}) = 8

Volume(g) == (g.x1 - g.x0) * (g.y1 - g.y0) * (g.z1 - g.z0)

SubpartVolumes == SumSeq([k \in 1..Len(PartNames) |-> Volume(subparts[PartNames[k]])])

CellVolume == gridResult.sizeX * gridResult.sizeY * gridResult.sizeZ

C10_CellSize ==
    (CellCut /\ N >= 2 /\ M >= 2) =>
        /\ originalGridResult.sizeX * N = SizeX(baseGeom)
        /\ originalGridResult.sizeY * M = SizeY(baseGeom)
        /\ originalGridResult.sizeZ = SizeZ(baseGeom)

C10_Witness ==
    /\ pc = "scale" /\ N = 3 /\ M = 2
    /\ SizeX(baseGeom) = 480 /\ SizeY(baseGeom) = 240
    /\ originalGridResult.sizeX = 160 /\ originalGridResult.sizeY = 120

(***************************************************************************)
(* Properties of the repair.                                               *)
(***************************************************************************)
\* the unordered vertex-index set of a triangle
IndexSet(t) == {t[1], t[2], t[3]}

NoDuplicateFaces(g) ==
    \A k \in 1..Len(g.index) : \A l \in (k + 1)..Len(g.index) :
        IndexSet(g.index[k]) # IndexSet(g.index[l])

\* no triangle has an area below MIN_TRIANGLE_AREA
NoDegenerateFaces(g) ==
    \A k \in 1..Len(g.index) :
        CrossSquared(Pos(g, g.index[k][1]), Pos(g, g.index[k][2]), Pos(g, g.index[k][3]))
            >= 4 * MIN_TRIANGLE_AREA * MIN_TRIANGLE_AREA

\* C6: the mesh returned by fixNonManifoldGeometry is the fixpoint of the repair
\* loop: it has no two triangles with the same vertex-index set and no triangle
\* of area below the minimum.
C6_ReturnsRepaired ==
    pc = "fixed" =>
        /\ fixed.position = output.position
        /\ fixed.index = output.index
        /\ NoDuplicateFaces(fixed)
        /\ NoDegenerateFaces(fixed)

\* C7: repairing a repaired mesh again changes neither the vertex count, nor
\* the triangle count, nor the number of edges on other than two triangles.
C7_Idempotent ==
    pc = "refixed" =>
        /\ Len(refixed.position) = Len(fixed.position)
        /\ Len(refixed.index) = Len(fixed.index)
        /\ Cardinality(NonManifoldEdges(refixed)) = Cardinality(NonManifoldEdges(fixed))

C7_Witness ==
    /\ pc = "refixed"
    /\ Len(merged.index) = 2
    /\ ~NoDuplicateFaces(mergeVertices(merged, MERGE_VERTICES_TOLERANCE))
    /\ Cardinality(NonManifoldEdges(fixed)) > 0

\* the six orders of the three indices of a triangle
IndexOrders ==
    {<<1, 2, 3>>, <<1, 3, 2>>, <<2, 1, 3>>, <<2, 3, 1>>, <<3, 1, 2>>, <<3, 2, 1>>}

\* the mesh with its triangle list permuted by p and the indices of triangle
\* p[k] reordered by q[k]
Permuted(g, p, q) ==
    [g EXCEPT !.index = [k \in 1..Len(g.index) |->
        [c \in 1..3 |-> g.index[p[k]][q[k][c]]]]]

IsPositiveInteger(token) ==
    /\ Len(token) > 0
    /\ \A k \in 1..Len(token) : IsDigit(token[k])
    /\ ReadDigits(token, 1, 0, 0)[1] >= 1

\* the argument has the form NxM with integers N >= 1 and M >= 1
WellFormedGridArg(input) ==
    LET tokens == Split(input, "x", 1, <<>>)
    IN Len(tokens) = 2 /\ IsPositiveInteger(tokens[1]) /\ IsPositiveInteger(tokens[2])

\* C11: main is called only if both grid-size arguments have the form NxM with
\* integers N, M >= 1: every other argument has made parseGridSize throw.
C11_MalformedRejected ==
    pc \in {"callMain", "main"} =>
        WellFormedGridArg(argv.inputGrids) /\ WellFormedGridArg(argv.outputGrids)

(***************************************************************************)
(* Properties of validateGeometry.                                         *)
(***************************************************************************)
HasNaN(position) ==
    \E k \in 1..Len(position) : \E c \in 1..3 : isNaN(position[k][c])

SphereNotFinite(position) ==
    boundingSphereRadiusSq4(position).kind \in {"NaN", "Infinity"}

\* C12: at every checkpoint, validateGeometry throws for a position buffer
\* that holds a NaN or whose bounding sphere has a NaN or infinite radius,
\* and returns for every other position buffer.
C12_RejectsNaNAndNonFinite ==
    (pc \in {"validated", "thrown"} /\ IsDefined(stepInput.position)) =>
        /\ context \in Checkpoints
        /\ (pc = "thrown") <=> (HasNaN(Value(stepInput.position))
                                  \/ SphereNotFinite(Value(stepInput.position)))

C12_Witness ==
    /\ pc = "thrown"
    /\ IsDefined(stepInput.position)
    /\ ~HasNaN(Value(stepInput.position))
    /\ SphereNotFinite(Value(stepInput.position))
    /\ context = "cutToParts sideWall"

C14_ArtifactsIffDebugOption ==
    pc = "done" => ((Len(artifacts) > 0) <=> options.debug)

\* C15: when inputGrids has n < 2 or m < 2, the grid-size error is raised
\* before the solid is normalised or cut and before any artifact is written,
\* in debug mode as well.
C15_ErrorBeforeGeometry ==
    err = ErrGridSize => (Len(artifacts) = 0 /\ baseGeom \in BaseSolids)

ReassembleCalled == subparts # NoSubparts /\ pc # "reassemble"

\* C17: with rows = 0 or cols = 0, reassemble collects no piece and throws
\* 'No geometries to merge' instead of returning a mesh.
C17_EmptyAssemblyError ==
    (ReassembleCalled /\ (Rows = 0 \/ Cols = 0)) =>
        (Len(geometries) = 0 /\ err = ErrNoGeometries)

\* the walls placed last by reassemble, in push order: near wall, far wall,
\* near top edge, far top edge, left wall, right wall, left and right top edge
PlacedSideWalls ==
    SideWalls(subparts, cornerCuttingRadius, containerSizeX(gridResult, Cols),
              containerSizeY(gridResult, Rows), options.height)

nearSideWall == PlacedSideWalls[1]
farSideWall == PlacedSideWalls[2]
leftSideWall == PlacedSideWalls[5]
rightSideWall == PlacedSideWalls[6]

WallsPlaced ==
    /\ Reassembled /\ Rows >= 1 /\ Cols >= 1
    /\ SubSeq(geometries, Len(geometries) - Len(PlacedSideWalls) + 1, Len(geometries))
          = PlacedSideWalls

ZSpan(g) == g.z1 - g.z0

WeldStep ==
    /\ pc = "fix" /\ pc' = "welded"
    /\ output' = mergeVertices([output EXCEPT !.normal = FALSE], MERGE_VERTICES_TOLERANCE)

DedupStep == pc' = "deduped" /\ output' = removeDuplicateFaces(output)

CullStep == pc' = "culled" /\ output' = removeDegenerateTriangles(output)

ReweldStep ==
    /\ pc' \in {"return", "fix"}
    /\ output' = [mergeVertices(output, MERGE_VERTICES_TOLERANCE) EXCEPT !.normal = TRUE]

InLoop == pc \in {"fix", "welded", "deduped", "culled"}

\* C20 as claimed: in each pass of the repair loop the weld is followed by
\* the culling of degenerate triangles, that by the removal of duplicate
\* triangles, that by the second weld with the normals.
C20_CullThenDedup ==
    [][InLoop =>
        \/ WeldStep \/ pc' = "dedupOnly"
        \/ pc = "welded" /\ CullStep
        \/ pc = "culled" /\ DedupStep
        \/ pc = "deduped" /\ ReweldStep]_vars

\* C20 as amended: in each pass of the repair loop the weld is followed by
\* the removal of duplicate triangles, that by the culling of degenerate
\* triangles, that by the second weld with the normals.
C20_DedupThenCull ==
    [][InLoop =>
        \/ WeldStep \/ pc' = "dedupOnly"
        \/ pc = "welded" /\ DedupStep
        \/ pc = "deduped" /\ CullStep
        \/ pc = "culled" /\ ReweldStep]_vars

C20_Witness ==
    /\ pc = "culled"
    /\ Len(output.index) < Len(stepInput.index)
    /\ Len(stepInput.index) < Len(merged.index)

(***************************************************************************)
(* The repair loop ends.                                                   *)
(***************************************************************************)
\* C21: the repair loop of fixNonManifoldGeometry terminates: the length of
\* the vertex buffer at the end of a pass is never above the length at its
\* start, the loop is left in the first pass in which the two are equal and
\* only in such a pass, and a pass that has begun leads to the exit of the loop
C21_LoopTerminates ==
    /\ [][pc = "culled" =>
            /\ VerticesLength(output') <= verticesLengthBegin
            /\ (pc' = "return") <=> (VerticesLength(output') = verticesLengthBegin)
            /\ (pc' = "fix") <=> (VerticesLength(output') < verticesLengthBegin)]_vars
    /\ (pc = "welded") ~> (pc = "return")

\* the loop has been left in a later pass than the first
C21_Witness ==
    pc = "return" /\ verticesLengthBegin < VerticesLength(merged)

(***************************************************************************)
(* Culling of degenerate triangles.                                        *)
(***************************************************************************)
\* the three vertex positions of triangle t of mesh g, in the order of t
TrianglePositions(g, t) == <<Pos(g, t[1]), Pos(g, t[2]), Pos(g, t[3])>>

\* 2 * area compared with 2 * MIN_TRIANGLE_AREA, on the squares
AreaNotBelowMin(g, t) ==
    CrossSquared(Pos(g, t[1]), Pos(g, t[2]), Pos(g, t[3]))
        >= 4 * MIN_TRIANGLE_AREA * MIN_TRIANGLE_AREA

AreaAboveMin(g, t) ==
    CrossSquared(Pos(g, t[1]), Pos(g, t[2]), Pos(g, t[3]))
        > 4 * MIN_TRIANGLE_AREA * MIN_TRIANGLE_AREA

\* `after` is `before` with exactly the triangles that satisfy Kept, in
\* their order and winding and at their positions, on a vertex buffer in
\* which every index is valid and every vertex is referenced
CompactedTo(before, after, Kept(_, _)) ==
    LET kept == SelectSeq(before.index, LAMBDA t : Kept(before, t))
        verts == 0..(Len(after.position) - 1)
    IN /\ Len(after.index) = Len(kept)
       /\ \A k \in 1..Len(kept) :
            TrianglePositions(after, after.index[k]) = TrianglePositions(before, kept[k])
       /\ \A k \in 1..Len(after.index) : \A c \in 1..3 : after.index[k][c] \in verts
       /\ \A v \in verts :
            \E k \in 1..Len(after.index) : \E c \in 1..3 : after.index[k][c] = v

\* C22 as stated: removeDegenerateTriangles keeps exactly the triangles whose
\* area is not below MIN_TRIANGLE_AREA, in their order and winding and at
\* their positions, on a compacted vertex buffer
C22_KeepsNotBelow ==
    pc = "culled" => CompactedTo(stepInput, output, AreaNotBelowMin)

\* C22 as amended: removeDegenerateTriangles keeps exactly the triangles whose
\* area is above MIN_TRIANGLE_AREA (a triangle of exactly that area is
\* dropped), in their order and winding and at their positions; every index of
\* the result is a valid vertex index and every vertex of the result is
\* referenced by a kept triangle
C22_KeepsAbove ==
    pc = "culled" => CompactedTo(stepInput, output, AreaAboveMin)

\* a triangle of area exactly MIN_TRIANGLE_AREA has been dropped, another
\* triangle has been kept and the vertex buffer has become shorter
C22_Witness ==
    /\ pc = "culled"
    /\ \E k \in 1..Len(stepInput.index) :
            AreaNotBelowMin(stepInput, stepInput.index[k])
                /\ ~AreaAboveMin(stepInput, stepInput.index[k])
    /\ Len(output.index) >= 1
    /\ Len(output.position) < Len(stepInput.position)

(***************************************************************************)
(* The non-manifold diagnostic.                                            *)
(***************************************************************************)
\* the undirected edges of triangle t: unordered pairs of vertex indices
EdgesOf(t) == {{t[1], t[2]}, {t[2], t[3]}, {t[3], t[1]}}

\* the triangles of mesh g that edge e is a side of
IncidentTriangles(g, e) == {k \in 1..Len(g.index) : e \in EdgesOf(g.index[k])}

\* some edge of g is a side of a number of triangles other than two
SomeEdgeNotOnTwo(g) ==
    \E k \in 1..Len(g.index) : \E e \in EdgesOf(g.index[k]) :
        Cardinality(IncidentTriangles(g, e)) # 2

\* C23: hasNonManifoldEdges returns true exactly when some undirected edge is
\* a side of a number of triangles other than two, and it leaves the vertex
\* and index buffers of the mesh as they were
C23_DiagnosticExact ==
    IsDefined(diagnostic) =>
        /\ Value(diagnostic) <=> SomeEdgeNotOnTwo(fixed)
        /\ fixed.position = merged.position
        /\ fixed.index = merged.index

(***************************************************************************)
(* reassemble works on clones.                                             *)
(***************************************************************************)
\* the statements of reassemble have all been executed
AllPushed ==
    reassembly.ip = Len(Statements(reassembly.rows, reassembly.cols)) + 1

\* C24: reassemble never writes the buffers of the 12 subparts it receives,
\* and a piece that is in the output list has the buffers it had when it was
\* pushed: every transformation is applied to a clone that has not been
\* pushed yet
C24_SubpartsAndPushedUntouched ==
    reassembly.ip >= 1 =>
        /\ \A k \in 1..Len(PartNames) : reassembly.heap[k] = FreshPart(k)
        /\ \A i \in 1..Len(reassembly.pushed) :
            reassembly.heap[reassembly.pushed[i].ref] = reassembly.pushed[i].was

\* a 2 x 2 container has been assembled: every kind of piece has been cloned,
\* transformed and pushed
C24_Witness ==
    /\ AllPushed
    /\ reassembly.rows = 2 /\ reassembly.cols = 2
    /\ \A k \in 1..Len(PartNames) :
        PartNames[k] = "topCorner1W" \/
        \E i \in 1..Len(reassembly.pushed) :
            /\ reassembly.pushed[i].was.from = PartNames[k]
            /\ Len(reassembly.pushed[i].was.written) >= 1

(***************************************************************************)
(* The cutter boxes of cutToParts.                                         *)
(***************************************************************************)
\* box b, without its overlap margin, lies inside box bb
InsideBox(b, bb) ==
    /\ bb.x0 <= b.x0 /\ b.x0 < b.x1 /\ b.x1 <= bb.x1
    /\ bb.y0 <= b.y0 /\ b.y0 < b.y1 /\ b.y1 <= bb.y1
    /\ bb.z0 <= b.z0 /\ b.z0 < b.z1 /\ b.z1 <= bb.z1

\* boxes a and b, without their overlap margins, share some volume
InteriorsMeet(a, b) ==
    /\ a.x0 < b.x1 /\ b.x0 < a.x1
    /\ a.y0 < b.y1 /\ b.y0 < a.y1
    /\ a.z0 < b.z1 /\ b.z0 < a.z1

\* the boxes cutToParts has cut the cell with
CutterBoxesUsed == CutterBoxes(gridResult.geometry, cornerCuttingRadius)

\* C25: when 0 < r < min(sizeX, sizeY) / 2 and r < sizeZ / 2, the 12 cutter
\* boxes of cutToParts, without the overlap margin, lie inside the bounding
\* box of the cell and no two of them share volume
C25_CutterBoxesDisjoint ==
    (pc = "reassemble"
        /\ RadiusFits(SizeX(gridResult.geometry), SizeY(gridResult.geometry),
                      SizeZ(gridResult.geometry), cornerCuttingRadius))
    => LET boxes == CutterBoxesUsed
           box == [i \in 1..Len(PartNames) |-> boxes[PartNames[i]]]
       IN /\ \A i \in 1..Len(PartNames) : InsideBox(box[i], gridResult.geometry)
          /\ \A i, j \in 1..Len(PartNames) : i < j => ~InteriorsMeet(box[i], box[j])

\* a rescaled cell that is not square has been cut into its 12 parts, each
\* of the size of its cutter box
C25_Witness ==
    /\ pc = "reassemble"
    /\ IsDefined(options.outputGridSize)
    /\ SizeX(gridResult.geometry) # SizeY(gridResult.geometry)
    /\ RadiusFits(SizeX(gridResult.geometry), SizeY(gridResult.geometry),
                  SizeZ(gridResult.geometry), cornerCuttingRadius)
    /\ LET boxes == CutterBoxesUsed IN
        \A i \in 1..Len(PartNames) :
            /\ SizeX(subparts[PartNames[i]]) = SizeX(boxes[PartNames[i]])
            /\ SizeY(subparts[PartNames[i]]) = SizeY(boxes[PartNames[i]])
            /\ SizeZ(subparts[PartNames[i]]) = SizeZ(boxes[PartNames[i]])

(***************************************************************************)
(* The rescaling of the cell.                                              *)
(***************************************************************************)
\* the cell has been cut and rescaled, and reassemble has not failed
Rescaled == pc \in {"cutToParts", "reassemble", "export", "done"}

\* C26: when outputGridSize is present the cell and the corner radius are
\* rescaled by the one factor outputGridSize / sizeX: sizeX becomes
\* outputGridSize, sizeY, sizeZ and the radius are multiplied by the factor,
\* the geometry has the rescaled size and the container keeps the height
\* option; when it is absent the cell and the radius are unchanged
C26_UniformRescale ==
    Rescaled =>
        /\ IF IsDefined(options.outputGridSize)
           THEN LET s == Value(options.outputGridSize)
                    o == originalGridResult
                IN /\ gridResult.sizeX = s
                   /\ gridResult.sizeY * o.sizeX = o.sizeY * s
                   /\ gridResult.sizeZ * o.sizeX = o.sizeZ * s
                   /\ cornerCuttingRadius * o.sizeX = options.inputCornerRadius * s
                   /\ SizeX(gridResult.geometry) * o.sizeX = SizeX(o.geometry) * s
                   /\ SizeY(gridResult.geometry) * o.sizeX = SizeY(o.geometry) * s
                   /\ SizeZ(gridResult.geometry) * o.sizeX = SizeZ(o.geometry) * s
           ELSE /\ gridResult = originalGridResult
                /\ cornerCuttingRadius = options.inputCornerRadius
        /\ (pc = "export" /\ Rows >= 1 /\ Cols >= 1) => ExtentZ = options.height

\* a cell that is not square has been rescaled by a factor other than 1 and
\* the container has been assembled
C26_Witness ==
    /\ pc = "export"
    /\ Rows >= 1 /\ Cols >= 1
    /\ IsDefined(options.outputGridSize)
    /\ originalGridResult.sizeX # Value(options.outputGridSize)
    /\ originalGridResult.sizeX # originalGridResult.sizeY
    /\ cornerCuttingRadius # options.inputCornerRadius
    /\ options.height # originalGridResult.sizeZ

\* the part names of a piece list, in the order of the list
PartOrder(pieces) == [k \in 1..Len(pieces) |-> pieces[k].part]

\* a cell of 420 x 420 x 210 cut with a radius of 30, unlike every cell of
\* the runs: the piece list it gives for a grid is the yardstick of the order
YardstickCell ==
    [geometry |-> Geom("cell", 0, 420, 0, 420, 0, 210),
     sizeX |-> 420, sizeY |-> 420, sizeZ |-> 210]

YardstickOrder ==
    [g \in (1..MaxOutputGrid) \X (1..MaxOutputGrid) |->
        PartOrder(PlacedPieces(cutToParts(YardstickCell.geometry, 30), YardstickCell,
                               30, 300, g[1], g[2]))]

\* C27: for rows, cols >= 1 the piece list handed to the merge has exactly
\* 9 * rows * cols + 16 entries, and its length and its order of parts are
\* those of any other cell, radius and height on the same (rows, cols)
C27_PieceCountAndOrder ==
    (pc = "export" /\ Rows >= 1 /\ Cols >= 1) =>
        /\ Len(geometries) = 9 * Rows * Cols + 16
        /\ PartOrder(geometries) = YardstickOrder[<<Rows, Cols>>]

\* a 2 x 1 container of cells that are not square, rescaled, with dividers
C27_Witness ==
    /\ pc = "export"
    /\ Rows = 2 /\ Cols = 1
    /\ Len(geometries) = 34
    /\ gridResult.sizeX # gridResult.sizeY
    /\ gridResult.sizeX # YardstickCell.sizeX
    /\ cornerCuttingRadius # 30

\* the input model the page shows: the uploaded file unless the default is
\* in use or no file was chosen
ShownInput ==
    IF ~page.useDefaultModel /\ IsDefined(page.selectedFile)
    THEN FileBytes(Value(page.selectedFile))
    ELSE DefaultBytes

\* C28: whenever the page holds a generated model, that model was produced
\* from the parameters and the input model the page shows at that moment
C28_GeneratedMatchesShown ==
    (pc = "page" /\ IsDefined(page.generatedSTL)) =>
        Value(page.generatedSTL) = GridifiedSTL(ShownInput, page.gridifierParams)

\* C29: when Generate is pressed while "Use Default Model" is checked, the
\* call that starts is one of GridifierAction without an input buffer
C29_DefaultCheckedRunsDefault ==
    [][(pc = "page" /\ page.call.at = "idle" /\ page'.call.at # "idle"
            /\ page.useDefaultModel)
        => (page'.call.at = "GridifierAction" /\ ~IsDefined(page'.call.inputBuffer))]_vars

\* C30: the route answers 200 only to the model "default", with the bytes of
\* public/default.stl; for every other model name it answers 404 and starts
\* no file read; for "default" it answers 404 when the file cannot be read
C30_OnlyDefaultServed ==
    pc = "route" =>
        \A i \in 1..Len(route.requests) :
            LET request == route.requests[i] IN
            /\ request.model # "default" => request.read = None
            /\ IsDefined(request.read) => Value(request.read) = ModelPath("default")
            /\ request.at = "returned" =>
                /\ IsDefined(request.response)
                /\ request.model # "default" => Value(request.response).status = 404
                /\ (request.model = "default" /\ ~route.readable)
                      => Value(request.response).status = 404
                /\ Value(request.response).status # 404
                      => /\ request.model = "default"
                         /\ Value(request.response) = Attachment(DefaultBytes)

\* a name with ".." was answered, and so was "default" while its file
\* could not be read
C30_Witness ==
    /\ pc = "route"
    /\ ~route.readable
    /\ \E i, j \in 1..Len(route.requests) :
        /\ route.requests[i].model = "../default"
        /\ route.requests[i].at = "returned"
        /\ route.requests[j].model = "default"
        /\ route.requests[j].at = "returned"
        /\ IsDefined(route.requests[j].read)
====
